---- MODULE Spec2Model ----
(***************************************************************************)
(* The session / matchmaking engine of src/index.js: the socket.io event   *)
(* handlers login, joinGame, makeChoice and disconnect, and the functions  *)
(* matchPlayers, checkMatchCompletion, checkGameEnd, calculateScores and   *)
(* updatePlayerRedisData they call.                                        *)
(*                                                                         *)
(* The process is single-threaded: a handler runs without interruption up  *)
(* to its next `await` of a store call and is resumed later, so every      *)
(* action below is one such run-to-completion segment of one handler.      *)
(* A store command acts on the store when it is issued (the commands of    *)
(* the one client connection are executed in the order they are issued),   *)
(* and the handler that awaits its reply resumes at any later time.        *)
(***************************************************************************)
EXTENDS Integers, Sequences, FiniteSets, Bags, TLC

\* ------------------------------------------------------------------ bounds
MaxSockets == 3      \* connections 1..MaxSockets
MaxPlayers == 4      \* identifiers uuidv4() can hand out: 1..MaxPlayers
\* What the clients of specification Spec do at most.
DuoSockets == 2      \* connections that send events
DuoPlayers == 2      \* identifiers handed out
MaxRelogins == 1     \* login events that name an identifier the store holds
MaxChoices == 4      \* makeChoice events
MaxDisconnects == 2  \* disconnects
MaxGames == 2        \* cap on totalGames (joinGame is disabled beyond it)
MaxPending == 2      \* cap on the handlers suspended at an await
TrioPlayers == 3     \* identifiers of specification SpecTrio
LongChoices == 8     \* makeChoice events of specification SpecLong
MaxReward == 3       \* payoff constants of SpecScores: 0 - 1 .. MaxReward

\* ------------------------------------------------- GAME_CONFIG (scaled down)
INITIAL_SCORE == 3
MAX_ROUNDS == 2
HISTORY_LIMIT == 2
MIN_SCORE == 0
NAME_LIMIT == 20

Sockets == 1..MaxSockets
Ids == 1..MaxPlayers
None == 0                 \* undefined / null where an id or a socket id is expected
UnknownId == 0 - 1        \* an identifier a client supplies that the store never held
NoChoice == "null"        \* currentChoice: null
Choices == {"cooperate", "betray"}
DefaultName == "anon"     \* the fallback name of login and of updatePlayerRedisData
LongName == "abcdefghijklmnopqrstu"   \* 21 characters

VARIABLES
  players,            \* gameState.players: Map playerId -> playerData
  waitingPlayers,     \* gameState.waitingPlayers: Set, in insertion order
  matches,            \* gameState.matches: Map playerId -> opponentId
  socketToPlayerId,   \* gameState.socketToPlayerId: Map, in insertion order
  globalRewards,      \* gameState.globalRewards
  store,              \* the Redis hashes player:<id>
  pending,            \* the handlers suspended at an await (a bag)
  conn,               \* per socket: "open" or "closed" (its disconnect has fired)
  nextId,             \* the next identifier uuidv4() returns
  sent,               \* what the last step emitted and logged, in order
  submitted,          \* ids that submitted a choice in their current pairing
  lastClosed,         \* the socket whose disconnect handler ran in the last step
  used,               \* the events the clients have sent so far, per kind
  limit,              \* what the clients do at most (fixed by Init)
  cleanedUp,          \* per socket: the id its disconnect cleanup ran for, or None
  storeUp,            \* the Redis client executes commands (FALSE: it rejects them)
  calc                \* one call of calculateScores or of getTopPlayers: its
                      \* arguments, its progress and its result

vars == <<players, waitingPlayers, matches, socketToPlayerId, globalRewards,
          store, pending, conn, nextId, sent, submitted, lastClosed, used, limit,
          cleanedUp, storeUp, calc>>

\* --------------------------------------------------------- Map / Set helpers
MapSet(m, k, v) == [x \in (DOMAIN m) \cup {k} |-> IF x = k THEN v ELSE m[x]]
MapDel(m, k) == [x \in (DOMAIN m) \ {k} |-> m[x]]
MapGet(m, k) == IF k \in DOMAIN m THEN m[k] ELSE None
EmptyMap == [x \in {} |-> None]

SeqRange(s) == {s[i] : i \in 1..Len(s)}
SetAdd(s, x) == IF x \in SeqRange(s) THEN s ELSE Append(s, x)
SetDelete(s, x) == SelectSeq(s, LAMBDA y : y # x)

\* socketToPlayerId: a sequence of <<socketId, playerId>> in insertion order
BindingGet(b, s) ==
  IF \E i \in 1..Len(b) : b[i][1] = s
  THEN b[CHOOSE i \in 1..Len(b) : b[i][1] = s][2]
  ELSE None
BindingSet(b, s, p) ==
  IF \E i \in 1..Len(b) : b[i][1] = s
  THEN [i \in 1..Len(b) |-> IF b[i][1] = s THEN <<s, p>> ELSE b[i]]
  ELSE Append(b, <<s, p>>)
BindingDelete(b, s) == SelectSeq(b, LAMBDA e : e[1] # s)

\* ------------------------------------------------------------ notifications
\* One emitted event (to = socket id) or one console.log line (to = None).
Msg(ev, to, who, n1, n2, txt) ==
  [ev |-> ev, to |-> to, who |-> who, n1 |-> n1, n2 |-> n2, txt |-> txt]
ErrorMsg(to, txt) == Msg("error", to, None, 0, 0, txt)

\* ------------------------------------------------------------ the game state
\* The part of the state the functions of index.js read and write, as one
\* value: out collects what a handler emits and logs, overflow is set when
\* matchPlayers exhausts the call stack (a RangeError is then in flight).
GS ==
  [players |-> players, waitingPlayers |-> waitingPlayers, matches |-> matches,
   socketToPlayerId |-> socketToPlayerId, globalRewards |-> globalRewards,
   store |-> store, submitted |-> submitted, out |-> <<>>, overflow |-> FALSE,
   up |-> storeUp]

Emit(gs, m) == [gs EXCEPT !.out = Append(@, m)]

\* findSocketByPlayerId (index.js 426-431): the first binding, in insertion
\* order, whose value is playerId.
findSocketByPlayerId(gs, playerId) ==
  LET b == gs.socketToPlayerId
      hits == {i \in 1..Len(b) : b[i][2] = playerId}
  IN IF hits = {} THEN None
     ELSE b[CHOOSE i \in hits : \A j \in hits : i <= j][1]

\* findOpponent that answers the participant itself when it holds no pairing.
findOpponentOrSelf(gs, playerId) ==
  IF playerId \in DOMAIN gs.matches THEN gs.matches[playerId] ELSE playerId

\* findOpponent (index.js 434-436)
findOpponent(gs, playerId) == MapGet(gs.matches, playerId)

\* ------------------------------------------------------------------ the store
\* A field of a hash is text; a numeric field is represented by the integer
\* its text denotes (String and parseInt are inverse on integers), and the
\* `||` fallbacks of the writer are applied as the code applies them.
OrDefault(n, d) == IF n = 0 THEN d ELSE n

\* The hash updatePlayerRedisData writes (index.js 660-669).
RedisFields(playerId, player) ==
  [id |-> OrDefault(player.id, playerId),
   name |-> IF player.name = "" THEN DefaultName ELSE player.name,
   score |-> OrDefault(player.score, INITIAL_SCORE),
   history |-> player.history,
   currentRound |-> OrDefault(player.currentRound, 0),
   currentChoice |-> IF player.currentChoice = NoChoice THEN "" ELSE player.currentChoice,
   totalGames |-> OrDefault(player.totalGames, 0)]

\* updatePlayerRedisData (index.js 653-673): the hSet is issued at the call.
updatePlayerRedisData(gs, playerId, player) ==
  IF playerId = None THEN gs
  ELSE IF ~gs.up THEN Emit(gs, Msg("writeFailed", None, playerId, 0, 0, ""))
  ELSE [gs EXCEPT !.store = MapSet(@, playerId, RedisFields(playerId, player))]

\* The hash the login handler writes itself (index.js 180-189).
LoginFields(playerData) ==
  [id |-> playerData.id,
   name |-> playerData.name,
   score |-> playerData.score,
   history |-> playerData.history,
   currentRound |-> playerData.currentRound,
   currentChoice |-> IF playerData.currentChoice = NoChoice THEN "" ELSE playerData.currentChoice,
   totalGames |-> playerData.totalGames]

\* Rebuild that keeps the stored name.
RebuildStoredName(playerId, name, redisData) ==
  [id |-> playerId,
   name |-> redisData.name,
   score |-> redisData.score,
   history |-> redisData.history,
   currentRound |-> redisData.currentRound,
   currentChoice |-> IF redisData.currentChoice = "" THEN NoChoice ELSE redisData.currentChoice,
   totalGames |-> redisData.totalGames]

\* The record rebuilt from a hash (index.js 145-153 and 225-233); every field
\* the writers store is a non-empty text except currentChoice.
Rebuild(playerId, name, redisData) ==
  [id |-> playerId,
   name |-> name,
   score |-> redisData.score,
   history |-> redisData.history,
   currentRound |-> redisData.currentRound,
   currentChoice |-> IF redisData.currentChoice = "" THEN NoChoice ELSE redisData.currentChoice,
   totalGames |-> redisData.totalGames]

\* The record of a new player (index.js 159-167).
NewPlayer(playerId, name) ==
  [id |-> playerId, name |-> name, score |-> INITIAL_SCORE, history |-> <<>>,
   currentRound |-> 0, currentChoice |-> NoChoice, totalGames |-> 0]

\* ------------------------------------------------------------ calculateScores
\* calculateScores with the last branch a copy of the third: the roles of the
\* two sides are not swapped for (betray, cooperate).
calculateScoresUnswapped(choice1, choice2, rewards) ==
  IF choice1 = "cooperate" /\ choice2 = "cooperate"
  THEN [player1 |-> rewards.bothCooperate, player2 |-> rewards.bothCooperate]
  ELSE IF choice1 = "betray" /\ choice2 = "betray"
  THEN [player1 |-> rewards.bothBetray, player2 |-> rewards.bothBetray]
  ELSE [player1 |-> 0 - rewards.cooperate, player2 |-> rewards.betray]

\* index.js 676-688, with the payoff matrix it reads as a parameter.
calculateScores(choice1, choice2, rewards) ==
  IF choice1 = "cooperate" /\ choice2 = "cooperate"
  THEN [player1 |-> rewards.bothCooperate, player2 |-> rewards.bothCooperate]
  ELSE IF choice1 = "betray" /\ choice2 = "betray"
  THEN [player1 |-> rewards.bothBetray, player2 |-> rewards.bothBetray]
  ELSE IF choice1 = "cooperate" /\ choice2 = "betray"
  THEN [player1 |-> 0 - rewards.cooperate, player2 |-> rewards.betray]
  ELSE [player1 |-> rewards.betray, player2 |-> 0 - rewards.cooperate]

\* Array.prototype.sort((a, b) => a.round - b.round): stable, in place.
RECURSIVE SortByRound(_)
SortByRound(h) ==
  IF Len(h) <= 1 THEN h
  ELSE LET rest == SortByRound(SubSeq(h, 1, Len(h) - 1))
           x == h[Len(h)]
           k == Cardinality({i \in 1..Len(rest) : rest[i].round <= x.round})
       IN SubSeq(rest, 1, k) \o <<x>> \o SubSeq(rest, k + 1, Len(rest))

\* -------------------------------------------------------------- getTopPlayers
\* index.js 452-458: the leaderboard entry of one hash.
BoardEntry(playerId, playerData) ==
  [id |-> OrDefault(playerData.id, playerId),
   name |-> playerData.name,
   score |-> playerData.score,
   currentRound |-> playerData.currentRound,
   totalGames |-> playerData.totalGames]

\* SortByScore in ascending order.
RECURSIVE SortByScoreAscending(_)
SortByScoreAscending(list) ==
  IF Len(list) <= 1 THEN list
  ELSE LET rest == SortByScoreAscending(SubSeq(list, 1, Len(list) - 1))
           x == list[Len(list)]
           k == Cardinality({i \in 1..Len(rest) : rest[i].score <= x.score})
       IN SubSeq(rest, 1, k) \o <<x>> \o SubSeq(rest, k + 1, Len(rest))

\* index.js 464, Array.prototype.sort((a, b) => b.score - a.score): stable.
RECURSIVE SortByScore(_)
SortByScore(list) ==
  IF Len(list) <= 1 THEN list
  ELSE LET rest == SortByScore(SubSeq(list, 1, Len(list) - 1))
           x == list[Len(list)]
           k == Cardinality({i \in 1..Len(rest) : rest[i].score >= x.score})
       IN SubSeq(rest, 1, k) \o <<x>> \o SubSeq(rest, k + 1, Len(rest))

\* index.js 467, Array.prototype.slice(0, n) for n >= 0.
SliceTo(list, n) == SubSeq(list, 1, IF n < Len(list) THEN n ELSE Len(list))

\* index.js 464-467: what getTopPlayers returns for the entries it has read.
TopOf(list, n) == SliceTo(SortByScore(list), n)

\* --------------------------------------------------------------- matchPlayers
\* Map.delete / Map.set on matches; a pairing that is written or removed
\* starts with no submitted choice.
MatchesDelete(gs, playerId) ==
  [gs EXCEPT !.matches = MapDel(@, playerId), !.submitted = @ \ {playerId}]
MatchesSet(gs, playerId, opponentId) ==
  [gs EXCEPT !.matches = MapSet(@, playerId, opponentId), !.submitted = @ \ {playerId}]
WaitingAdd(gs, playerId) == [gs EXCEPT !.waitingPlayers = SetAdd(@, playerId)]
WaitingDelete(gs, playerId) == [gs EXCEPT !.waitingPlayers = SetDelete(@, playerId)]

\* index.js 510-517: an id without a record is removed from the queue.
DropInvalid(gs, playerId) ==
  IF playerId \notin DOMAIN gs.players
  THEN Emit(WaitingDelete(gs, playerId), Msg("removeInvalid", None, playerId, 0, 0, ""))
  ELSE gs

\* index.js 521-531: both leave the queue, the pairing is written both ways,
\* both choices are reset.
FormPair(gs, player1Id, player2Id) ==
  [MatchesSet(MatchesSet(WaitingDelete(WaitingDelete(gs, player1Id), player2Id),
                         player1Id, player2Id),
              player2Id, player1Id)
     EXCEPT !.players[player1Id].currentChoice = NoChoice,
            !.players[player2Id].currentChoice = NoChoice]

\* index.js 539-549: one matchFound; the opponent's history is sorted in place.
NotifyMatch(gs, socketId, playerId, opponentId) ==
  Emit([gs EXCEPT !.players[opponentId].history = SortByRound(@)],
       Msg("matchFound", socketId, playerId, opponentId, 0, gs.players[opponentId].name))

\* index.js 554-566: the side whose socket is missing undoes the pairing and
\* puts the other side back in the queue.
UndoPair(gs, socketId, player1Id, player2Id, backId) ==
  IF socketId = None
  THEN WaitingAdd(MatchesDelete(MatchesDelete(gs, player1Id), player2Id), backId)
  ELSE gs

\* The states of a pass in which neither side has a socket, after each of its
\* calls: where the pass is when the call stack runs out.
Stops(gs, player1Id, player2Id) ==
  <<gs,
    WaitingDelete(gs, player1Id),
    WaitingDelete(WaitingDelete(gs, player1Id), player2Id),
    MatchesSet(WaitingDelete(WaitingDelete(gs, player1Id), player2Id), player1Id, player2Id),
    FormPair(gs, player1Id, player2Id),
    MatchesDelete(FormPair(gs, player1Id, player2Id), player1Id),
    MatchesDelete(MatchesDelete(FormPair(gs, player1Id, player2Id), player1Id), player2Id),
    UndoPair(FormPair(gs, player1Id, player2Id), None, player1Id, player2Id, player2Id),
    UndoPair(UndoPair(FormPair(gs, player1Id, player2Id), None, player1Id, player2Id, player2Id),
             None, player1Id, player2Id, player1Id)>>
Cuts == 1..9

\* The passes matchPlayers can make before it returns, when it returns at all:
\* a pass that does not return either drops an id or moves the first two ids
\* to the end of the queue.
MatchDepth == MaxPlayers * MaxPlayers + 2

\* index.js 498-572. depth is the number of recursive calls left before the
\* call stack is exhausted; cut selects the call of the last pass at which the
\* RangeError is raised (the state mutations made before it stay).
RECURSIVE matchPlayersFrom(_, _, _)

\* index.js 533-571, for a pair `paired` formed from the state gs.
NotifyOrRetry(paired, gs, player1Id, player2Id, socket1Id, socket2Id, depth, cut) ==
  IF socket1Id # None /\ socket2Id # None
  THEN NotifyMatch(NotifyMatch(paired, socket1Id, player1Id, player2Id),
                   socket2Id, player2Id, player1Id)
  ELSE IF depth = 0
  THEN [Stops(gs, player1Id, player2Id)[cut] EXCEPT !.overflow = TRUE]
  ELSE matchPlayersFrom(
         UndoPair(UndoPair(paired, socket1Id, player1Id, player2Id, player2Id),
                  socket2Id, player1Id, player2Id, player1Id),
         depth - 1, cut)

\* index.js 501-571, for the first two ids of the queue.
MatchFirstTwo(gs, player1Id, player2Id, depth, cut) ==
  IF player1Id \notin DOMAIN gs.players \/ player2Id \notin DOMAIN gs.players
  THEN DropInvalid(DropInvalid(gs, player1Id), player2Id)
  ELSE NotifyOrRetry(FormPair(gs, player1Id, player2Id), gs, player1Id, player2Id,
                     findSocketByPlayerId(gs, player1Id),
                     findSocketByPlayerId(gs, player2Id), depth, cut)

matchPlayersFrom(gs, depth, cut) ==
  IF Len(gs.waitingPlayers) < 2 THEN gs
  ELSE MatchFirstTwo(gs, gs.waitingPlayers[1], gs.waitingPlayers[2], depth, cut)

matchPlayers(gs, cut) == matchPlayersFrom(gs, MatchDepth, cut)

\* --------------------------------------------------------------- checkGameEnd
\* GameOver with a strict comparison of the score.
GameOverStrict(player) ==
  player.score < MIN_SCORE \/ player.currentRound >= MAX_ROUNDS

\* index.js 695-696
GameOver(player) ==
  player.score <= MIN_SCORE \/ player.currentRound >= MAX_ROUNDS

\* EndMessage that tests the round limit first.
EndMessageRoundsFirst(player) ==
  IF player.currentRound >= MAX_ROUNDS THEN "maxRounds" ELSE "scoreExhausted"

\* index.js 707-708
EndMessage(player) ==
  IF player.score <= MIN_SCORE THEN "scoreExhausted" ELSE "maxRounds"

\* The value checkGameEnd returns (index.js 693, 725, 728).
Ended(gs, playerId) ==
  playerId \notin DOMAIN gs.players \/ GameOver(gs.players[playerId])

\* index.js 701-710
NotifyEnd(gs, socketId, playerId) ==
  IF socketId # None
  THEN Emit(gs, Msg("gameEnd", socketId, playerId, gs.players[playerId].score,
                    gs.players[playerId].currentRound, EndMessage(gs.players[playerId])))
  ELSE gs

\* index.js 712-724
ResetGame(gs, playerId) ==
  Emit(MatchesDelete(
         WaitingDelete(
           updatePlayerRedisData(gs, playerId, gs.players[playerId]), playerId), playerId),
       Msg("gameOver", None, playerId, gs.players[playerId].score,
           gs.players[playerId].currentRound, ""))

\* checkGameEnd without the reset of currentRound.
checkGameEndKeepsRound(gs, playerId) ==
  IF playerId \in DOMAIN gs.players /\ GameOver(gs.players[playerId])
  THEN ResetGame(
         [NotifyEnd(gs, findSocketByPlayerId(gs, playerId), playerId)
            EXCEPT !.players[playerId].history = <<>>,
                   !.players[playerId].currentChoice = NoChoice],
         playerId)
  ELSE gs

\* index.js 691-729: the state it leaves; Ended is the value it returns.
checkGameEnd(gs, playerId) ==
  IF playerId \in DOMAIN gs.players /\ GameOver(gs.players[playerId])
  THEN ResetGame(
         [NotifyEnd(gs, findSocketByPlayerId(gs, playerId), playerId)
            EXCEPT !.players[playerId].currentRound = 0,
                   !.players[playerId].history = <<>>,
                   !.players[playerId].currentChoice = NoChoice],
         playerId)
  ELSE gs

\* ------------------------------------------------------- checkMatchCompletion
\* index.js 586-601: the deltas and the round are added, both records written.
\* player1Id # player2Id: an id is never paired with itself.
ApplyScores(gs, player1Id, player2Id, scores) ==
  updatePlayerRedisData(
    updatePlayerRedisData(
      [Emit(gs, Msg("roundDone", None, player1Id, player2Id, 0, ""))
         EXCEPT !.players[player1Id].score = @ + scores.player1,
                !.players[player2Id].score = @ + scores.player2,
                !.players[player1Id].currentRound = @ + 1,
                !.players[player2Id].currentRound = @ + 1],
      player1Id,
      [gs.players[player1Id] EXCEPT !.score = @ + scores.player1, !.currentRound = @ + 1]),
    player2Id,
    [gs.players[player2Id] EXCEPT !.score = @ + scores.player2, !.currentRound = @ + 1])

\* NotifyRound reporting the side's own choice as the opponent's.
NotifyRoundOwnChoice(gs, socketId, playerId, delta, opponentId) ==
  IF socketId # None
  THEN Emit(gs, Msg("roundComplete", socketId, playerId, delta,
                    gs.players[playerId].score, gs.players[playerId].currentChoice))
  ELSE gs

\* index.js 607-624: one roundComplete.
NotifyRound(gs, socketId, playerId, delta, opponentId) ==
  IF socketId # None
  THEN Emit(gs, Msg("roundComplete", socketId, playerId, delta,
                    gs.players[playerId].score, gs.players[opponentId].currentChoice))
  ELSE gs

\* ClearChoices resetting the first side only.
ClearChoicesFirst(gs, player1Id, player2Id) ==
  [gs EXCEPT !.players[player1Id].currentChoice = NoChoice]

\* index.js 626-628
ClearChoices(gs, player1Id, player2Id) ==
  [gs EXCEPT !.players[player1Id].currentChoice = NoChoice,
             !.players[player2Id].currentChoice = NoChoice]

\* index.js 639-645: a side that did not end and still has a record is queued.
Requeue(gs, playerId, ended) ==
  IF ~ended /\ playerId \in DOMAIN gs.players THEN WaitingAdd(gs, playerId) ELSE gs

\* FinishRound with the end of the game checked for the first side only: the
\* second side is queued again whenever it has a record.
FinishRoundFirstOnly(cleared, player1Id, player2Id, cut) ==
  matchPlayers(
    Requeue(
      Requeue(
        MatchesDelete(MatchesDelete(checkGameEnd(cleared, player1Id), player1Id),
                      player2Id),
        player1Id, Ended(cleared, player1Id)),
      player2Id, FALSE),
    cut)

\* index.js 630-648, from the state `cleared` in which the choices are reset.
\* checkGameEnd(player1Id) leaves the record of player2Id alone, so what
\* checkGameEnd(player2Id) returns can be read off `cleared` as well.
FinishRound(cleared, player1Id, player2Id, cut) ==
  matchPlayers(
    Requeue(
      Requeue(
        MatchesDelete(
          MatchesDelete(checkGameEnd(checkGameEnd(cleared, player1Id), player2Id),
                        player1Id),
          player2Id),
        player1Id, Ended(cleared, player1Id)),
      player2Id, Ended(cleared, player2Id)),
    cut)

\* Settle with the end of the game checked before the roundComplete
\* notifications.
SettleEndFirst(gs, player1Id, player2Id, scores, cut) ==
  FinishRound(
    ClearChoices(
      NotifyRound(
        NotifyRound(
          checkGameEnd(checkGameEnd(ApplyScores(gs, player1Id, player2Id, scores),
                                    player1Id),
                       player2Id),
          findSocketByPlayerId(gs, player1Id), player1Id, scores.player1, player2Id),
        findSocketByPlayerId(gs, player2Id), player2Id, scores.player2, player1Id),
      player1Id, player2Id),
    player1Id, player2Id, cut)

\* index.js 586-648: the settlement of one round.
Settle(gs, player1Id, player2Id, scores, cut) ==
  FinishRound(
    ClearChoices(
      NotifyRound(
        NotifyRound(ApplyScores(gs, player1Id, player2Id, scores),
                    findSocketByPlayerId(gs, player1Id), player1Id, scores.player1, player2Id),
        findSocketByPlayerId(gs, player2Id), player2Id, scores.player2, player1Id),
      player1Id, player2Id),
    player1Id, player2Id, cut)

\* checkMatchCompletion settling as soon as one of the two sides has chosen.
checkMatchCompletionEither(gs, player1Id, player2Id, cut) ==
  IF player1Id \notin DOMAIN gs.players \/ player2Id \notin DOMAIN gs.players
  THEN Emit(gs, Msg("playerMissing", None, player1Id, player2Id, 0, ""))
  ELSE IF gs.players[player1Id].currentChoice # NoChoice
          \/ gs.players[player2Id].currentChoice # NoChoice
  THEN Settle(gs, player1Id, player2Id,
              calculateScores(gs.players[player1Id].currentChoice,
                              gs.players[player2Id].currentChoice, gs.globalRewards),
              cut)
  ELSE gs

\* index.js 575-650.
checkMatchCompletion(gs, player1Id, player2Id, cut) ==
  IF player1Id \notin DOMAIN gs.players \/ player2Id \notin DOMAIN gs.players
  THEN Emit(gs, Msg("playerMissing", None, player1Id, player2Id, 0, ""))
  ELSE IF gs.players[player1Id].currentChoice # NoChoice
          /\ gs.players[player2Id].currentChoice # NoChoice
  THEN Settle(gs, player1Id, player2Id,
              calculateScores(gs.players[player1Id].currentChoice,
                              gs.players[player2Id].currentChoice, gs.globalRewards),
              cut)
  ELSE gs

\* ------------------------------------------------------- suspended handlers
NoData == RedisFields(None, NewPlayer(None, ""))

\* A handler suspended at an await: k names the await, s the socket of the
\* handler, p and o its playerId and opponentId, nm its playerName, ex the
\* reply of `exists` (for a store write: whether it was applied), rd the reply
\* of `hGetAll`, all as the store had them when the command was issued.
Cont(k, s, p, o, nm, ex, rd) ==
  [k |-> k, s |-> s, p |-> p, o |-> o, nm |-> nm, ex |-> ex, rd |-> rd]

\* A command the handler awaits itself is rejected when the client is down:
\* the handler resumes in its catch block (index.js 198-201, 274-277).
AwaitLogin(k) == IF storeUp THEN k ELSE "login_rejected"
AwaitJoin(k) == IF storeUp THEN k ELSE "join_rejected"

Suspend(c) == pending (+) SetToBag({c})
Resume(c) == pending (-) SetToBag({c})
Suspended == BagToSet(pending)
CanSuspend == BagCardinality(pending) < limit.pending

\* The state a handler segment leaves behind.
Commit(g) ==
  /\ players' = g.players
  /\ waitingPlayers' = g.waitingPlayers
  /\ matches' = g.matches
  /\ socketToPlayerId' = g.socketToPlayerId
  /\ store' = g.store
  /\ submitted' = g.submitted
  /\ sent' = g.out
  /\ globalRewards' = globalRewards
  /\ limit' = limit
  /\ storeUp' = storeUp
  /\ calc' = calc

\* A client may send an event on socket s.
Open(s) == conn[s] = "open" /\ s <= limit.sockets
\* The event counts against the clients' budget of its kind.
Count(kind) ==
  /\ used[kind] < limit[kind]
  /\ used' = [used EXCEPT ![kind] = @ + 1]

\* ---------------------------------------------------------------------- login
\* index.js 173-189: bind the socket, store the record, issue the hSet.
LoginBind(gs, s, playerId, playerData) ==
  LET g1 == [gs EXCEPT !.socketToPlayerId = BindingSet(@, s, playerId)]
      g2 == [g1 EXCEPT !.players = MapSet(@, playerId, playerData)]
  IN IF gs.up
     THEN [g2 EXCEPT !.store = MapSet(@, playerId, LoginFields(playerData))]
     ELSE g2

\* index.js 157-171, then 173-189.
LoginNew(s, playerName, rest) ==
  /\ nextId <= limit.players
  /\ limit.once => BindingGet(socketToPlayerId, s) = None
  /\ Commit(LoginBind(GS, s, nextId, NewPlayer(nextId, playerName)))
  /\ nextId' = nextId + 1
  /\ pending' = rest (+) SetToBag({Cont(AwaitLogin("login_hset"), s, nextId, None, playerName, TRUE, NoData)})

\* LoginEvent without the check of the length of the name.
LoginEventUnchecked(s, idIn, nameIn) ==
  LET playerName == IF nameIn = "" THEN DefaultName ELSE nameIn IN
  /\ Open(s)
  /\ lastClosed' = None
  /\ cleanedUp' = cleanedUp
  /\ conn' = conn
  /\ CanSuspend
  /\ IF idIn \in DOMAIN store THEN Count("relogins") ELSE used' = used
  /\ IF idIn # None
     THEN /\ Commit(GS)
          /\ pending' = Suspend(Cont(AwaitLogin("login_exists"), s, idIn, None, playerName,
                                     idIn \in DOMAIN store, NoData))
          /\ nextId' = nextId
     ELSE LoginNew(s, playerName, pending)

\* index.js 125-140: the event, up to the first await.
LoginEvent(s, idIn, nameIn) ==
  LET playerName == IF nameIn = "" THEN DefaultName ELSE nameIn IN
  /\ Open(s)
  /\ lastClosed' = None
  /\ cleanedUp' = cleanedUp
  /\ conn' = conn
  /\ IF Len(playerName) > NAME_LIMIT
     THEN /\ limit.rejects
          /\ used' = used
          /\ Commit(Emit(GS, ErrorMsg(s, "nameTooLong")))
          /\ UNCHANGED <<pending, nextId>>
     ELSE /\ CanSuspend
          /\ IF idIn \in DOMAIN store THEN Count("relogins") ELSE used' = used
          /\ IF idIn # None
             THEN /\ Commit(GS)
                  /\ pending' = Suspend(Cont(AwaitLogin("login_exists"), s, idIn, None, playerName,
                                             idIn \in DOMAIN store, NoData))
                  /\ nextId' = nextId
             ELSE LoginNew(s, playerName, pending)

\* index.js 140-142: `exists` has replied.
LoginExistsReply(c) ==
  /\ c.k = "login_exists"
  /\ UNCHANGED <<conn>>
  /\ lastClosed' = None
  /\ cleanedUp' = cleanedUp
  /\ used' = used
  /\ IF c.ex
     THEN /\ Commit(GS)
          /\ pending' = Resume(c) (+) SetToBag({Cont(AwaitLogin("login_hgetall"), c.s, c.p, None, c.nm,
                                                    TRUE, store[c.p])})
          /\ nextId' = nextId
     ELSE LoginNew(c.s, c.nm, Resume(c))

\* index.js 142-189: `hGetAll` has replied.
LoginHGetAllReply(c) ==
  /\ c.k = "login_hgetall"
  /\ UNCHANGED <<conn, nextId>>
  /\ lastClosed' = None
  /\ cleanedUp' = cleanedUp
  /\ used' = used
  /\ Commit(LoginBind(GS, c.s, c.p, Rebuild(c.p, c.nm, c.rd)))
  /\ pending' = Resume(c) (+) SetToBag({Cont(AwaitLogin("login_hset"), c.s, c.p, None, c.nm, FALSE, NoData)})

\* index.js 191-197: `hSet` has replied.
LoginHSetReply(c) ==
  /\ c.k = "login_hset"
  /\ UNCHANGED <<conn, nextId>>
  /\ lastClosed' = None
  /\ cleanedUp' = cleanedUp
  /\ used' = used
  /\ Commit(Emit(GS, Msg("loginSuccess", c.s, c.p, IF c.ex THEN 1 ELSE 0, 0, c.nm)))
  /\ pending' = Resume(c)

\* index.js 198-201: a store command of the handler was rejected.
LoginRejected(c) ==
  /\ c.k = "login_rejected"
  /\ UNCHANGED <<conn, nextId>>
  /\ lastClosed' = None
  /\ cleanedUp' = cleanedUp
  /\ used' = used
  /\ Commit(Emit(GS, ErrorMsg(c.s, "loginFailed")))
  /\ pending' = Resume(c)

\* ------------------------------------------------------------------- joinGame
\* index.js 238-260 would increment totalGames beyond the cap.
JoinCapped(gs, playerId) ==
  /\ playerId \in DOMAIN gs.players
  /\ playerId \notin SeqRange(gs.waitingPlayers)
  /\ playerId \notin DOMAIN gs.matches
  /\ gs.players[playerId].totalGames >= limit.games

\* JoinCheck with totalGames incremented before the two checks.
JoinCheckCountsFirst(gs, s, playerId) ==
  LET g1 == [gs EXCEPT !.players[playerId].totalGames = @ + 1] IN
  IF playerId \in SeqRange(gs.waitingPlayers)
  THEN [gs |-> Emit(g1, ErrorMsg(s, "alreadyWaiting")), await |-> FALSE]
  ELSE IF playerId \in DOMAIN gs.matches
  THEN [gs |-> Emit(g1, ErrorMsg(s, "alreadyInGame")), await |-> FALSE]
  ELSE [gs |-> updatePlayerRedisData(g1, playerId, g1.players[playerId]),
        await |-> TRUE]

\* index.js 238-260: from the queue check to the await of the store write.
\* The result says whether the handler is suspended at that await.
JoinCheck(gs, s, playerId) ==
  IF playerId \in SeqRange(gs.waitingPlayers)
  THEN [gs |-> Emit(gs, ErrorMsg(s, "alreadyWaiting")), await |-> FALSE]
  ELSE IF playerId \in DOMAIN gs.matches
  THEN [gs |-> Emit(gs, ErrorMsg(s, "alreadyInGame")), await |-> FALSE]
  ELSE LET g1 == [gs EXCEPT !.players[playerId].totalGames = @ + 1]
       IN [gs |-> updatePlayerRedisData(g1, playerId, g1.players[playerId]),
           await |-> TRUE]

\* index.js 205-260: the event, up to the first await.
JoinGameEvent(s) ==
  LET playerId == BindingGet(socketToPlayerId, s) IN
  /\ Open(s)
  /\ limit.rejects \/ (playerId # None /\ (playerId \in DOMAIN players => JoinCheck(GS, s, playerId).await))
  /\ UNCHANGED <<conn, nextId>>
  /\ lastClosed' = None
  /\ cleanedUp' = cleanedUp
  /\ used' = used
  /\ IF playerId = None
     THEN /\ Commit(Emit(GS, ErrorMsg(s, "notLoggedIn")))
          /\ pending' = pending
     ELSE IF playerId \in DOMAIN players
     THEN LET r == JoinCheck(GS, s, playerId) IN
          /\ ~JoinCapped(GS, playerId)
          /\ r.await => CanSuspend
          /\ Commit(r.gs)
          /\ pending' = IF r.await
                        THEN Suspend(Cont("join_write", s, playerId, None, "", storeUp, NoData))
                        ELSE pending
     ELSE /\ CanSuspend
          /\ Commit(GS)
          /\ pending' = Suspend(Cont(AwaitJoin("join_exists"), s, playerId, None, "",
                                     playerId \in DOMAIN store, NoData))

\* index.js 218-224: `exists` has replied.
JoinExistsReply(c) ==
  /\ c.k = "join_exists"
  /\ UNCHANGED <<conn, nextId>>
  /\ lastClosed' = None
  /\ cleanedUp' = cleanedUp
  /\ used' = used
  /\ IF c.ex
     THEN /\ Commit(GS)
          /\ pending' = Resume(c) (+) SetToBag({Cont(AwaitJoin("join_hgetall"), c.s, c.p, None, "",
                                                    TRUE, store[c.p])})
     ELSE /\ Commit(Emit(GS, ErrorMsg(c.s, "playerLost")))
          /\ pending' = Resume(c)

\* index.js 224-260: `hGetAll` has replied.
JoinHGetAllReply(c) ==
  LET player == Rebuild(c.p, IF c.rd.name = "" THEN DefaultName ELSE c.rd.name, c.rd)
      g1 == [GS EXCEPT !.players = MapSet(@, c.p, player)]
      r == JoinCheck(g1, c.s, c.p)
  IN
  /\ c.k = "join_hgetall"
  /\ UNCHANGED <<conn, nextId>>
  /\ lastClosed' = None
  /\ cleanedUp' = cleanedUp
  /\ used' = used
  /\ ~JoinCapped(g1, c.p)
  /\ Commit(r.gs)
  /\ pending' = IF r.await
                THEN Resume(c) (+) SetToBag({Cont("join_write", c.s, c.p, None, "", storeUp, NoData)})
                ELSE Resume(c)

\* index.js 274-277: `exists` or `hGetAll` was rejected.
JoinRejected(c) ==
  /\ c.k = "join_rejected"
  /\ UNCHANGED <<conn, nextId>>
  /\ lastClosed' = None
  /\ cleanedUp' = cleanedUp
  /\ used' = used
  /\ Commit(Emit(GS, ErrorMsg(c.s, "joinFailed")))
  /\ pending' = Resume(c)

\* index.js 262-277: the store write has replied.
JoinWriteReply(c, cut) ==
  LET g1 == Emit(GS, Msg("gameJoined", c.s, c.p, 0, 0, ""))
      g3 == matchPlayers(WaitingAdd(g1, c.p), cut)
  IN
  /\ c.k = "join_write"
  /\ (cut = 1 \/ g3.overflow)
  /\ UNCHANGED <<conn, nextId>>
  /\ lastClosed' = None
  /\ cleanedUp' = cleanedUp
  /\ used' = used
  /\ Commit(IF g3.overflow THEN Emit(g3, ErrorMsg(c.s, "joinFailed")) ELSE g3)
  /\ pending' = Resume(c)

\* ----------------------------------------------------------------- makeChoice
\* RecordChoice without the shift of the oldest entry.
RecordChoiceNoShift(player, choice, rewards) ==
  [player EXCEPT
     !.currentChoice = choice,
     !.history = Append(@, [round |-> player.currentRound, choice |-> choice,
                            score |-> player.score, rewards |-> rewards])]

\* index.js 309-320: record the choice and the history entry.
RecordChoice(player, choice, rewards) ==
  LET pushed == Append(player.history,
                       [round |-> player.currentRound, choice |-> choice,
                        score |-> player.score, rewards |-> rewards])
  IN [player EXCEPT
        !.currentChoice = choice,
        !.history = IF Len(pushed) > HISTORY_LIMIT THEN Tail(pushed) ELSE pushed]

\* index.js 281-323: the event, up to the await of the store write.
MakeChoiceEvent(s, choice) ==
  LET playerId == BindingGet(socketToPlayerId, s)
      opponentId == findOpponent(GS, playerId)
  IN
  /\ Open(s)
  /\ Count("choices")
  /\ limit.rejects \/ (choice \in Choices /\ playerId \in DOMAIN players /\ opponentId # None)
  /\ UNCHANGED <<conn, nextId>>
  /\ lastClosed' = None
  /\ cleanedUp' = cleanedUp
  /\ IF choice \notin Choices
     THEN Commit(Emit(GS, ErrorMsg(s, "invalidChoice"))) /\ pending' = pending
     ELSE IF playerId = None
     THEN Commit(Emit(GS, ErrorMsg(s, "notLoggedIn"))) /\ pending' = pending
     ELSE IF playerId \notin DOMAIN players
     THEN Commit(Emit(GS, ErrorMsg(s, "playerNotFound"))) /\ pending' = pending
     ELSE IF opponentId = None
     THEN Commit(Emit(GS, ErrorMsg(s, "noOpponent"))) /\ pending' = pending
     ELSE LET g1 == [GS EXCEPT !.players[playerId] =
                                  RecordChoice(@, choice, globalRewards),
                               !.submitted = @ \cup {playerId}]
              g2 == updatePlayerRedisData(g1, playerId, g1.players[playerId])
          IN /\ CanSuspend
             /\ Commit(g2)
             /\ pending' = Suspend(Cont("choice_write", s, playerId, opponentId, "",
                                        storeUp, NoData))

\* index.js 325-332: the store write has replied.
MakeChoiceReply(c, cut) ==
  LET g2 == checkMatchCompletion(GS, c.p, c.o, cut)
  IN
  /\ c.k = "choice_write"
  /\ (cut = 1 \/ g2.overflow)
  /\ UNCHANGED <<conn, nextId>>
  /\ lastClosed' = None
  /\ cleanedUp' = cleanedUp
  /\ used' = used
  /\ Commit(IF g2.overflow THEN Emit(g2, ErrorMsg(c.s, "choiceFailed")) ELSE g2)
  /\ pending' = Resume(c)

\* ----------------------------------------------------------------- disconnect
\* index.js 368-383: the cleanup of the connection.
ReleaseRecord(gs, playerId) ==
  IF playerId \in DOMAIN gs.players
  THEN [updatePlayerRedisData(gs, playerId, gs.players[playerId])
          EXCEPT !.players = MapDel(@, playerId)]
  ELSE gs

DisconnectCleanup(gs, s, playerId) ==
  ReleaseRecord(
    MatchesDelete(
      WaitingDelete([gs EXCEPT !.socketToPlayerId = BindingDelete(@, s)], playerId),
      playerId),
    playerId)

\* index.js 351-356
NotifyOpponent(gs, opponentSocketId, opponentId) ==
  IF opponentSocketId # None
  THEN Emit(gs, Msg("opponentDisconnected", opponentSocketId, opponentId, 0, 0, ""))
  ELSE gs

\* index.js 358-364: the pairing is removed, the opponent queued, a pass made.
ReleaseOpponent(gs, playerId, opponentId, cut) ==
  matchPlayers(
    WaitingAdd(MatchesDelete(MatchesDelete(gs, playerId), opponentId), opponentId), cut)

\* index.js 368-383 unless matchPlayers has thrown (the catch at 384 ends the
\* handler where the error was raised).
CleanupUnlessThrown(gs, s, playerId) ==
  IF gs.overflow THEN gs ELSE DisconnectCleanup(gs, s, playerId)

\* index.js 338-383 for a bound connection.
DisconnectBound(gs, s, playerId, opponentId, cut) ==
  IF opponentId # None /\ opponentId \in DOMAIN gs.players
  THEN CleanupUnlessThrown(
         ReleaseOpponent(
           NotifyOpponent(gs, findSocketByPlayerId(gs, opponentId), opponentId),
           playerId, opponentId, cut),
         s, playerId)
  ELSE DisconnectCleanup(gs, s, playerId)

\* index.js 336-387: the whole handler; it has no await.
DisconnectHandler(gs, s, cut) ==
  IF BindingGet(gs.socketToPlayerId, s) = None THEN gs
  ELSE DisconnectBound(gs, s, BindingGet(gs.socketToPlayerId, s),
                       findOpponent(gs, BindingGet(gs.socketToPlayerId, s)), cut)

\* index.js 368-383 has run for the participant s was bound to, unless the
\* handler returned at 339 or ended in its catch.
Cleaned(g, s) ==
  IF BindingGet(socketToPlayerId, s) # None /\ ~g.overflow
  THEN [cleanedUp EXCEPT ![s] = BindingGet(socketToPlayerId, s)]
  ELSE cleanedUp

\* The transport delivers `disconnect` for an open socket.
Disconnect(s, cut) ==
  LET g == DisconnectHandler(GS, s, cut) IN
  /\ Open(s)
  /\ Count("discs")
  /\ (cut = 1 \/ g.overflow)
  /\ conn' = [conn EXCEPT ![s] = "closed"]
  /\ lastClosed' = IF limit.again THEN s ELSE None
  /\ cleanedUp' = Cleaned(g, s)
  /\ Commit(g)
  /\ UNCHANGED <<pending, nextId>>

\* The handler called a second time for the connection, right after the first.
DisconnectAgain(s, cut) ==
  LET g == DisconnectHandler(GS, s, cut) IN
  /\ conn[s] = "closed"
  /\ lastClosed = s
  /\ (cut = 1 \/ g.overflow)
  /\ conn' = [conn EXCEPT ![s] = "closedTwice"]
  /\ lastClosed' = None
  /\ cleanedUp' = Cleaned(g, s)
  /\ used' = used
  /\ Commit(g)
  /\ UNCHANGED <<pending, nextId>>

\* -------------------------------------------------------------- specification
\* What the clients do at most, per specification: the connections that send
\* events, the identifiers handed out, the events of each kind, the arguments
\* they carry, whether they send events the handler rejects without effect
\* (rejects), and whether `disconnect` is delivered twice (again).
Play ==
  [sockets |-> DuoSockets, players |-> DuoPlayers, relogins |-> 0,
   choices |-> MaxChoices, discs |-> MaxDisconnects, games |-> MaxGames,
   pending |-> MaxPending,
   ids |-> {None}, names |-> {""}, choiceInputs |-> Choices,
   rejects |-> FALSE, again |-> FALSE, once |-> FALSE]

\* A client logs in again with an identifier the store holds.
Rehydrate ==
  [Play EXCEPT !.relogins = MaxRelogins, !.choices = MaxChoices - 1, !.discs = 0]

\* ... and a connection bound to the same identifier is closed.
Orphan ==
  [Play EXCEPT !.relogins = MaxRelogins, !.choices = 0, !.discs = 1]

Start ==
  /\ players = EmptyMap
  /\ waitingPlayers = <<>>
  /\ matches = EmptyMap
  /\ socketToPlayerId = <<>>
  /\ globalRewards = [cooperate |-> 3, betray |-> 5, bothCooperate |-> 2, bothBetray |-> 1]
  /\ store = EmptyMap
  /\ pending = EmptyBag
  /\ conn = [s \in Sockets |-> "open"]
  /\ nextId = 1
  /\ sent = <<>>
  /\ submitted = {}
  /\ lastClosed = None
  /\ cleanedUp = [s \in Sockets |-> None]
  /\ storeUp = TRUE
  /\ used = [relogins |-> 0, choices |-> 0, discs |-> 0]

NoCall == [choice1 |-> NoChoice, choice2 |-> NoChoice,
           rewards |-> [cooperate |-> 0, betray |-> 0, bothCooperate |-> 0, bothBetray |-> 0],
           done |-> FALSE, scores |-> [player1 |-> 0, player2 |-> 0]]

Init == Start /\ limit = Play /\ calc = NoCall

InitRehydrate == Start /\ limit \in {Rehydrate, Orphan} /\ calc = NoCall

\* The identifiers a client can supply: none, one the store holds, an unknown one.
IdInputs == limit.ids \cup DOMAIN store

\* Clients that log in once per identifier: no handler waits for `exists`
\* or `hGetAll`.
Next ==
  \/ \E s \in Sockets, idIn \in IdInputs, nameIn \in limit.names : LoginEvent(s, idIn, nameIn)
  \/ \E c \in Suspended : LoginHSetReply(c)
  \/ \E s \in Sockets : JoinGameEvent(s)
  \/ \E c \in Suspended, cut \in Cuts : JoinWriteReply(c, cut)
  \/ \E s \in Sockets, choice \in limit.choiceInputs : MakeChoiceEvent(s, choice)
  \/ \E c \in Suspended, cut \in Cuts : MakeChoiceReply(c, cut)
  \/ \E s \in Sockets, cut \in Cuts : Disconnect(s, cut)

Spec == Init /\ [][Next]_vars

\* Clients that also log in with an identifier the store holds.
NextRehydrate ==
  \/ \E s \in Sockets, idIn \in IdInputs, nameIn \in limit.names : LoginEvent(s, idIn, nameIn)
  \/ \E c \in Suspended : LoginExistsReply(c)
  \/ \E c \in Suspended : LoginHGetAllReply(c)
  \/ \E c \in Suspended : LoginHSetReply(c)
  \/ \E s \in Sockets : JoinGameEvent(s)
  \/ \E c \in Suspended : JoinExistsReply(c)
  \/ \E c \in Suspended : JoinHGetAllReply(c)
  \/ \E c \in Suspended, cut \in Cuts : JoinWriteReply(c, cut)
  \/ \E s \in Sockets, choice \in limit.choiceInputs : MakeChoiceEvent(s, choice)
  \/ \E c \in Suspended, cut \in Cuts : MakeChoiceReply(c, cut)
  \/ \E s \in Sockets, cut \in Cuts : Disconnect(s, cut)

SpecRehydrate == InitRehydrate /\ [][NextRehydrate]_vars

\* A participant disconnects and logs in again with its identifier while the
\* game goes on.
Return ==
  [Play EXCEPT !.relogins = MaxRelogins, !.choices = MaxChoices - 2, !.discs = 1,
               !.games = 1]

InitReturn == Start /\ limit = Return /\ calc = NoCall

SpecReturn == InitReturn /\ [][NextRehydrate]_vars

\* `disconnect` is delivered twice for a connection.
Again == [Play EXCEPT !.again = TRUE, !.choices = MaxChoices - 2]

\* The same, with enough identifiers to leave two records without a
\* connection (a connection that logs in again leaves its record behind).
Strand ==
  [Again EXCEPT !.players = MaxPlayers, !.choices = 0, !.discs = 1,
                !.games = 1, !.pending = 1]

InitAgain == Start /\ limit \in {Again, Strand} /\ calc = NoCall

NextAgain ==
  \/ \E s \in Sockets, idIn \in IdInputs, nameIn \in limit.names : LoginEvent(s, idIn, nameIn)
  \/ \E c \in Suspended : LoginHSetReply(c)
  \/ \E s \in Sockets : JoinGameEvent(s)
  \/ \E c \in Suspended, cut \in Cuts : JoinWriteReply(c, cut)
  \/ \E s \in Sockets, choice \in limit.choiceInputs : MakeChoiceEvent(s, choice)
  \/ \E c \in Suspended, cut \in Cuts : MakeChoiceReply(c, cut)
  \/ \E s \in Sockets, cut \in Cuts : Disconnect(s, cut)
  \/ \E s \in Sockets, cut \in Cuts : DisconnectAgain(s, cut)

SpecAgain == InitAgain /\ [][NextAgain]_vars

\* Three connections, three participants, no choice submitted.
Trio ==
  [Play EXCEPT !.sockets = MaxSockets, !.players = TrioPlayers, !.choices = 0,
               !.discs = 1]

InitTrio == Start /\ limit = Trio /\ calc = NoCall

NextTrio ==
  \/ \E s \in Sockets, idIn \in IdInputs, nameIn \in limit.names : LoginEvent(s, idIn, nameIn)
  \/ \E c \in Suspended : LoginHSetReply(c)
  \/ \E s \in Sockets : JoinGameEvent(s)
  \/ \E c \in Suspended, cut \in Cuts : JoinWriteReply(c, cut)
  \/ \E s \in Sockets, cut \in Cuts : Disconnect(s, cut)

SpecTrio == InitTrio /\ [][NextTrio]_vars

\* Three clients that log in once each and play one round.
Crowd ==
  [Play EXCEPT !.sockets = MaxSockets, !.players = TrioPlayers,
               !.choices = MaxChoices - 2, !.discs = 1, !.games = 1]

InitCrowd == Start /\ limit = Crowd /\ calc = NoCall

SpecCrowd == InitCrowd /\ [][Next]_vars

\* Two clients that also send what the handlers refuse: a name that is too
\* long, a joinGame while waiting or paired, a choice that is no choice, a
\* makeChoice while not paired.
BadChoice == "defect"
Reject ==
  [Play EXCEPT !.choices = MaxChoices - 1, !.discs = 0, !.games = 1,
               !.names = {"", LongName}, !.choiceInputs = Choices \cup {BadChoice},
               !.rejects = TRUE]

InitReject == Start /\ limit = Reject /\ calc = NoCall

NextReject ==
  \/ \E s \in Sockets, idIn \in IdInputs, nameIn \in limit.names : LoginEvent(s, idIn, nameIn)
  \/ \E c \in Suspended : LoginHSetReply(c)
  \/ \E s \in Sockets : JoinGameEvent(s)
  \/ \E c \in Suspended, cut \in Cuts : JoinWriteReply(c, cut)
  \/ \E s \in Sockets, choice \in limit.choiceInputs : MakeChoiceEvent(s, choice)
  \/ \E c \in Suspended, cut \in Cuts : MakeChoiceReply(c, cut)

SpecReject == InitReject /\ [][NextReject]_vars

\* Two clients, one handler in flight at a time, that log in with no id, with
\* an id the store holds or with one it does not hold, under either of two names.
OtherName == "bob"
Known ==
  [Play EXCEPT !.relogins = MaxRelogins, !.choices = MaxChoices - 2, !.discs = 1,
               !.games = 1, !.pending = MaxPending - 1,
               !.ids = {None, UnknownId}, !.names = {"", OtherName}]

InitKnown == Start /\ limit = Known /\ calc = NoCall

SpecKnown == InitKnown /\ [][NextRehydrate]_vars

\* The Redis client loses its connection and gets it back (index.js 56-82);
\* while it is down every command is rejected.
StoreFails ==
  /\ storeUp
  /\ storeUp' = FALSE
  /\ sent' = <<>>
  /\ lastClosed' = None
  /\ UNCHANGED <<players, waitingPlayers, matches, socketToPlayerId, globalRewards,
                 store, pending, conn, nextId, submitted, used, limit, cleanedUp, calc>>

StoreRecovers ==
  /\ ~storeUp
  /\ storeUp' = TRUE
  /\ sent' = <<>>
  /\ lastClosed' = None
  /\ UNCHANGED <<players, waitingPlayers, matches, socketToPlayerId, globalRewards,
                 store, pending, conn, nextId, submitted, used, limit, cleanedUp, calc>>

\* Two clients, one handler in flight at a time, one round, one known-id
\* login and one disconnect, with a store that fails.
Fault ==
  [Play EXCEPT !.relogins = MaxRelogins, !.choices = MaxChoices - 2, !.discs = 1,
               !.games = 1, !.pending = MaxPending - 1]

InitFault == Start /\ limit = Fault /\ calc = NoCall

NextFault ==
  \/ NextRehydrate
  \/ \E c \in Suspended : LoginRejected(c)
  \/ \E c \in Suspended : JoinRejected(c)
  \/ StoreFails
  \/ StoreRecovers

SpecFault == InitFault /\ [][NextFault]_vars

\* The payoff constants are changed from outside the handlers ("process-wide,
\* may be mutated externally"; README: they change every three seconds): one
\* change, to constants that all differ from the initial ones.
OtherRewards == [cooperate |-> 1, betray |-> 4, bothCooperate |-> 3, bothBetray |-> 0]
ChangeRewards ==
  /\ globalRewards # OtherRewards
  /\ globalRewards' = OtherRewards
  /\ sent' = <<>>
  /\ lastClosed' = None
  /\ UNCHANGED <<players, waitingPlayers, matches, socketToPlayerId, store, pending,
                 conn, nextId, submitted, used, limit, cleanedUp, storeUp, calc>>

\* Two clients, one handler in flight at a time, that play two games of
\* MAX_ROUNDS rounds and keep their connections.
Long ==
  [Play EXCEPT !.choices = LongChoices, !.discs = 0, !.pending = MaxPending - 1,
               !.once = TRUE]

InitLong == Start /\ limit = Long /\ calc = NoCall

SpecLong == InitLong /\ [][NextReject]_vars

\* Two clients that play one game while the payoff constants change.
Drift == [Play EXCEPT !.choices = MaxChoices - 2, !.discs = 0, !.games = 1]

InitDrift == Start /\ limit = Drift /\ calc = NoCall

NextDrift ==
  \/ NextReject
  \/ ChangeRewards

SpecDrift == InitDrift /\ [][NextDrift]_vars

\* Three clients, one handler in flight at a time, each registered once; one
\* of them logs in again with its identifier and one disconnects.
Stale ==
  [Play EXCEPT !.sockets = MaxSockets, !.players = TrioPlayers,
               !.relogins = MaxRelogins, !.choices = MaxChoices - 2, !.discs = 1,
               !.games = 1, !.pending = MaxPending - 1, !.once = TRUE]

InitStale == Start /\ limit = Stale /\ calc = NoCall

SpecStale == InitStale /\ [][NextRehydrate]_vars

\* One call of matchPlayers (index.js 498-572) on a queue of up to MaxPlayers
\* ids. A queued id is valid (record and bound connection), orphaned (record,
\* no connection bound to it: its connection logged in under another id) or
\* stale (no record: its disconnect cleanup ran).
Statuses == {"valid", "orphan", "stale"}
Lines ==
  {q \in UNION {[1..n -> Ids] : n \in 0..MaxPlayers} :
     \A i, j \in 1..Len(q) : i # j => q[i] # q[j]}

InitMatch ==
  /\ waitingPlayers \in Lines
  /\ \E st \in [Ids -> Statuses] :
       /\ \A p \in Ids : /\ p \notin SeqRange(waitingPlayers) => st[p] = "stale"
                         /\ st[p] = "valid" => p \in Sockets
       /\ players = [p \in {x \in Ids : st[x] # "stale"} |-> NewPlayer(p, DefaultName)]
       /\ socketToPlayerId =
            SelectSeq([s \in 1..MaxSockets |-> <<s, s>>], LAMBDA b : st[b[1]] = "valid")
  /\ store = [p \in DOMAIN players |-> LoginFields(players[p])]
  /\ matches = EmptyMap
  /\ globalRewards = [cooperate |-> 3, betray |-> 5, bothCooperate |-> 2, bothBetray |-> 1]
  /\ pending = EmptyBag
  /\ conn = [s \in Sockets |-> "open"]
  /\ nextId = MaxPlayers + 1
  /\ sent = <<>>
  /\ submitted = {}
  /\ lastClosed = None
  /\ cleanedUp = [s \in Sockets |-> None]
  /\ storeUp = TRUE
  /\ used = [relogins |-> 0, choices |-> 0, discs |-> 0]
  /\ limit = Play
  /\ calc = NoCall

\* The call; a RangeError of the recursion leaves the state of its last pass.
Pass(cut) ==
  /\ Len(waitingPlayers) >= 2
  /\ (cut = 1 \/ matchPlayers(GS, cut).overflow)
  /\ UNCHANGED <<conn, nextId, pending>>
  /\ lastClosed' = None
  /\ cleanedUp' = cleanedUp
  /\ used' = used
  /\ Commit(IF matchPlayers(GS, cut).overflow
            THEN Emit(matchPlayers(GS, cut), Msg("rangeError", None, None, 0, 0, ""))
            ELSE matchPlayers(GS, cut))

NextMatch == \E cut \in Cuts : Pass(cut)

SpecMatch == InitMatch /\ [][NextMatch]_vars

\* One call of getTopPlayers (index.js 439-472) on a store of up to TrioPlayers
\* hashes. calc holds the call: n is its argument, at its position, keys the
\* keys it has still to read, rd the hash of the hGetAll it awaits, list the
\* entries it has pushed, result what it returns, writes the store writes of
\* other handlers since the call began.
BoardScores == {0 - 2, 3, 5}
MaxWrites == 1

\* The orders in which `keys` can list the key set ks.
Orders(ks) ==
  {q \in [1..Cardinality(ks) -> ks] : \A i, j \in 1..Cardinality(ks) : i # j => q[i] # q[j]}

InitBoard ==
  /\ players = EmptyMap
  /\ waitingPlayers = <<>>
  /\ matches = EmptyMap
  /\ socketToPlayerId = <<>>
  /\ globalRewards = [cooperate |-> 3, betray |-> 5, bothCooperate |-> 2, bothBetray |-> 1]
  /\ \E ks \in SUBSET (1..TrioPlayers) : \E sc \in [ks -> BoardScores] :
       store = [p \in ks |-> LoginFields([NewPlayer(p, DefaultName) EXCEPT !.score = sc[p]])]
  /\ pending = EmptyBag
  /\ conn = [s \in Sockets |-> "open"]
  /\ nextId = MaxPlayers + 1
  /\ sent = <<>>
  /\ submitted = {}
  /\ lastClosed = None
  /\ cleanedUp = [s \in Sockets |-> None]
  /\ storeUp \in BOOLEAN
  /\ used = [relogins |-> 0, choices |-> 0, discs |-> 0]
  /\ limit = Play
  /\ calc \in [n : 0..TrioPlayers, at : {"call"}, keys : {<<>>}, rd : {NoData},
               list : {<<>>}, result : {<<>>}, writes : {0}]

\* What a step of the call leaves alone.
BoardFrame ==
  UNCHANGED <<players, waitingPlayers, matches, socketToPlayerId, globalRewards,
              pending, conn, nextId, sent, submitted, lastClosed, used, limit,
              cleanedUp, storeUp>>

\* index.js 442, 469-472: `keys` is issued; a rejected command returns [].
BoardCall(order) ==
  /\ calc.at = "call"
  /\ calc' = IF storeUp
             THEN [calc EXCEPT !.at = "keys", !.keys = order]
             ELSE [calc EXCEPT !.at = "done", !.result = <<>>]
  /\ store' = store
  /\ BoardFrame

\* index.js 443-449: `keys` has replied: no key returns [], else the first
\* hGetAll is issued.
BoardKeysReply ==
  /\ calc.at = "keys"
  /\ calc' = IF calc.keys = <<>>
             THEN [calc EXCEPT !.at = "done", !.result = <<>>]
             ELSE [calc EXCEPT !.at = "read", !.rd = store[Head(calc.keys)]]
  /\ store' = store
  /\ BoardFrame

\* index.js 449-467: an hGetAll has replied: the entry is pushed, and the next
\* hGetAll is issued or the list is sorted, cut and returned.
BoardReadReply ==
  LET pushed == IF calc.rd.name # ""
                THEN Append(calc.list, BoardEntry(Head(calc.keys), calc.rd))
                ELSE calc.list
  IN
  /\ calc.at = "read"
  /\ calc' = IF Len(calc.keys) > 1
             THEN [calc EXCEPT !.keys = Tail(@), !.list = pushed,
                               !.rd = store[calc.keys[2]]]
             ELSE [calc EXCEPT !.at = "done", !.keys = <<>>, !.list = pushed,
                               !.result = TopOf(pushed, calc.n)]
  /\ store' = store
  /\ BoardFrame

\* A settlement writes the hash of p, which has won the betray payoff, while
\* the call is suspended (index.js 597-601, updatePlayerRedisData 653-673).
BoardOtherWrite(p) ==
  /\ calc.at \in {"keys", "read"}
  /\ calc.writes < MaxWrites
  /\ p \in DOMAIN store
  /\ store' = [store EXCEPT ![p].score = @ + globalRewards.betray]
  /\ calc' = [calc EXCEPT !.writes = @ + 1]
  /\ BoardFrame

NextBoard ==
  \/ \E order \in Orders(DOMAIN store) : BoardCall(order)
  \/ BoardKeysReply
  \/ BoardReadReply
  \/ \E p \in Ids : BoardOtherWrite(p)

SpecBoard == InitBoard /\ [][NextBoard]_vars

\* One call of calculateScores, for every pair of choices and every payoff
\* matrix with entries in 0 - 1 .. MaxReward.
Rewards == (0 - 1)..MaxReward
InitScores ==
  /\ Start
  /\ limit = Play
  /\ calc \in [choice1 : Choices, choice2 : Choices,
               rewards : [cooperate : Rewards, betray : Rewards,
                          bothCooperate : Rewards, bothBetray : Rewards],
               done : {FALSE}, scores : {NoCall.scores}]

Calculate ==
  /\ ~calc.done
  /\ calc' = [calc EXCEPT !.done = TRUE,
                          !.scores = calculateScores(calc.choice1, calc.choice2, calc.rewards)]
  /\ UNCHANGED <<players, waitingPlayers, matches, socketToPlayerId, globalRewards,
                 store, pending, conn, nextId, sent, submitted, lastClosed, used, limit,
                 cleanedUp, storeUp>>

SpecScores == InitScores /\ [][Calculate]_vars

\* ================================================================ properties
\* The entries of an output list `out` that carry event `ev`.
Events(out, ev) == {out[i] : i \in {j \in 1..Len(out) : out[j].ev = ev}}

\* ------------------------------------------------------------------------ C1
\* C1: in every reachable state no participant id is at the same time a member
\* of waitingPlayers and a key of matches.
C1_QueueMatchExclusive ==
  \A p \in Ids : ~(p \in SeqRange(waitingPlayers) /\ p \in DOMAIN matches)

\* ------------------------------------------------------------------------ C2
\* p and q hold a pairing with each other.
Paired(p, q) ==
  /\ p # q
  /\ MapGet(matches, p) = q
  /\ MapGet(matches, q) = p

\* Both sides of the pairing of p and q have submitted a choice in it.
Complete(p, q) == Paired(p, q) /\ {p, q} \subseteq submitted

\* The output `out` of a step records a settlement between p and q.
Settled(out, p, q) ==
  \E m \in Events(out, "roundDone") : {m.who, m.n1} = {p, q}

\* C2: a pairing in which both sides have submitted is settled exactly once.
\* Never zero times: while the pairing is complete a makeChoice handler of it
\* is suspended at its store write, and it settles the pairing when it
\* resumes.  Never twice: a settlement is only ever run for a complete
\* pairing, it is one settlement, and it leaves the pairing not complete.
C2_SettledExactlyOnce ==
  /\ [](\A p, q \in Ids :
          Complete(p, q) =>
            \E c \in Suspended : c.k = "choice_write" /\ {c.p, c.o} = {p, q})
  /\ [][\A c \in Suspended :
          (c.k = "choice_write" /\ pending' = Resume(c) /\ Complete(c.p, c.o))
            => Settled(sent', c.p, c.o)]_vars
  /\ [][\A p, q \in Ids :
          Settled(sent', p, q) =>
            /\ Complete(p, q)
            /\ Cardinality(Events(sent', "roundDone")) = 1
            /\ {p, q} \cap submitted' = {}]_vars

\* ------------------------------------------------------------------------ C3
\* The payoff table as the rules state it: the deltas of an ordered pair of
\* choices under the payoff constants `rewards`.
Payoff(choice1, choice2, rewards) ==
  CASE choice1 = "cooperate" /\ choice2 = "cooperate" ->
         <<rewards.bothCooperate, rewards.bothCooperate>>
    [] choice1 = "betray" /\ choice2 = "betray" ->
         <<rewards.bothBetray, rewards.bothBetray>>
    [] choice1 = "cooperate" /\ choice2 = "betray" ->
         <<0 - rewards.cooperate, rewards.betray>>
    [] choice1 = "betray" /\ choice2 = "cooperate" ->
         <<rewards.betray, 0 - rewards.cooperate>>

Settlements(out) == Events(out, "roundDone")
Sides(m) == {<<m.who, m.n1>>, <<m.n1, m.who>>}

\* The delta of side p against q, from the choices the records hold before
\* the step and the payoff constants.
Delta(p, q) ==
  Payoff(players[p].currentChoice, players[q].currentChoice, globalRewards)[1]

\* p terminated in the step whose output is `out`.
Terminated(out, p) == \E e \in Events(out, "gameOver") : e.who = p

\* ------------------------------------------------------------------------ C4
\* C4: at every settlement each side's score becomes its score before plus
\* its delta, its currentRound grows by 1 (a side that terminates reports the
\* grown value in gameEnd and is then reset to 0), and the roundComplete sent
\* to a side carries the delta, the new total and the opponent's choice; two
\* participants at INITIAL_SCORE who both cooperate get delta bothCooperate
\* and total INITIAL_SCORE + bothCooperate.
C4_SettlementArithmetic ==
  [][\A m \in Settlements(sent') : \A pq \in Sides(m) :
       LET p == pq[1]
           q == pq[2]
       IN /\ players'[p].score = players[p].score + Delta(p, q)
          /\ IF Terminated(sent', p)
             THEN \A e \in Events(sent', "gameEnd") :
                    e.who = p => e.n2 = players[p].currentRound + 1
             ELSE players'[p].currentRound = players[p].currentRound + 1
          /\ findSocketByPlayerId(GS, p) # None =>
               \E r \in Events(sent', "roundComplete") : r.who = p
          /\ \A r \in Events(sent', "roundComplete") :
               r.who = p =>
                 /\ r.to = findSocketByPlayerId(GS, p)
                 /\ r.n1 = Delta(p, q)
                 /\ r.n2 = players[p].score + Delta(p, q)
                 /\ r.txt = players[q].currentChoice
                 /\ (/\ players[p].score = INITIAL_SCORE
                     /\ players[p].currentChoice = "cooperate"
                     /\ players[q].currentChoice = "cooperate")
                      => /\ r.n1 = globalRewards.bothCooperate
                         /\ r.n2 = INITIAL_SCORE + globalRewards.bothCooperate]_vars

\* The step before was the settlement of two participants at INITIAL_SCORE
\* who both cooperated: both were sent roundComplete with bothCooperate.
C4_Witness ==
  /\ Settlements(sent) # {}
  /\ Cardinality({r \in Events(sent, "roundComplete") :
                    /\ r.n1 = globalRewards.bothCooperate
                    /\ r.n2 = INITIAL_SCORE + globalRewards.bothCooperate
                    /\ r.txt = "cooperate"}) = 2

\* ------------------------------------------------------------------------ C5
\* C5: in the state that follows a settlement step, every participant that
\* was sent roundComplete has currentChoice none, and so has every side of
\* the settlement that is back in the waiting queue.
C5_ChoiceCleared ==
  /\ \A r \in Events(sent, "roundComplete") :
       r.who \in DOMAIN players /\ players[r.who].currentChoice = NoChoice
  /\ \A m \in Settlements(sent) : \A pq \in Sides(m) :
       pq[1] \in SeqRange(waitingPlayers) => players[pq[1]].currentChoice = NoChoice

\* The step before was a settlement after which one side is back in the
\* waiting queue, alone, having been sent roundComplete.
C5_Witness ==
  \E m \in Settlements(sent) : \E pq \in Sides(m) :
    /\ waitingPlayers = <<pq[1]>>
    /\ \E r \in Events(sent, "roundComplete") : r.who = pq[1]

\* ------------------------------------------------------------------------ C6
\* C6: every in-memory record has at most HISTORY_LIMIT history entries.
C6_HistoryBound ==
  \A p \in DOMAIN players : Len(players[p].history) <= HISTORY_LIMIT

\* A record rehydrated at login holds HISTORY_LIMIT entries, after more than
\* HISTORY_LIMIT choices were submitted.
C6_Witness ==
  /\ used.choices > HISTORY_LIMIT
  /\ \E c \in Suspended :
       /\ c.k = "login_hset"
       /\ ~c.ex
       /\ c.p \in DOMAIN players
       /\ Len(players[c.p].history) = HISTORY_LIMIT
       /\ Len(store[c.p].history) = HISTORY_LIMIT

C8_SymmetricTermination ==
  [][\A m \in Settlements(sent') :
       Terminated(sent', m.who) <=> Terminated(sent', m.n1)]_vars

\* C8, amended: each side terminates on its own score and round; the two
\* sides terminate together or continue together whenever their scores after
\* the settlement are on the same side of MIN_SCORE and their currentRound
\* values are equal.
C8_TerminationPerSide ==
  [][\A m \in Settlements(sent') :
       LET p == m.who
           q == m.n1
       IN (/\ players[p].currentRound = players[q].currentRound
           /\ (players'[p].score <= MIN_SCORE) <=> (players'[q].score <= MIN_SCORE))
            => (Terminated(sent', p) <=> Terminated(sent', q))]_vars

\* The step before was a settlement in which both sides reached MAX_ROUNDS
\* with a score above MIN_SCORE, and both terminated.
C8_Witness ==
  \E m \in Settlements(sent) :
    /\ Terminated(sent, m.who) /\ Terminated(sent, m.n1)
    /\ players[m.who].score > MIN_SCORE
    /\ players[m.n1].score > MIN_SCORE

\* ------------------------------------------------------------------------ C9
\* C9: a second disconnect for the same connection changes nothing in players,
\* waitingPlayers, matches, socketToPlayerId or the store, and sends nothing.
SecondDisconnect(s) == conn[s] = "closed" /\ conn'[s] = "closedTwice"

C9_DisconnectIdempotent ==
  [][\A s \in Sockets :
       SecondDisconnect(s) =>
         /\ UNCHANGED <<players, waitingPlayers, matches, socketToPlayerId, store>>
         /\ sent' = <<>>]_vars

\* ----------------------------------------------------------------------- C10
\* p has a record and a connection bound to it.
Valid(gs, p) == p \in DOMAIN gs.players /\ findSocketByPlayerId(gs, p) # None

\* The connection s closes in this step while its participant holds a pairing
\* with q, which has a record.
DisconnectsPaired(s, q) ==
  /\ conn[s] = "open" /\ conn'[s] = "closed"
  /\ BindingGet(socketToPlayerId, s) # None
  /\ q = findOpponent(GS, BindingGet(socketToPlayerId, s))
  /\ q \in DOMAIN players

\* C10: when a participant disconnects while paired, its opponent is sent
\* opponentDisconnected, the pairing is gone in both directions, the opponent
\* is in the waiting queue or in a new pairing formed in the same step, and
\* it is not left waiting beside another valid waiting participant; nor are
\* two valid participants ever left waiting together afterwards.
C10_OpponentRequeued ==
  /\ [][\A s \in Sockets, q \in Ids :
          DisconnectsPaired(s, q) =>
            LET p == BindingGet(socketToPlayerId, s) IN
            /\ findSocketByPlayerId(GS, q) # None =>
                 \E e \in Events(sent', "opponentDisconnected") :
                   e.to = findSocketByPlayerId(GS, q)
            /\ p \notin DOMAIN matches'
            /\ MapGet(matches', q) # p
            /\ q \in SeqRange(waitingPlayers') \/ q \in DOMAIN matches']_vars
  /\ [](\A p, q \in Ids :
          (p # q /\ Valid(GS, p) /\ Valid(GS, q))
            => ~({p, q} \subseteq SeqRange(waitingPlayers)))

\* The step before was the disconnect of a paired participant whose opponent
\* was paired again at once, with a third participant that was waiting.
C10_Witness ==
  \E e \in Events(sent, "opponentDisconnected") :
    /\ e.who \in DOMAIN matches
    /\ \E m \in Events(sent, "matchFound") : m.who = e.who /\ m.to = e.to
    /\ \E s \in Sockets : conn[s] = "closed"

\* ----------------------------------------------------------------------- C11
\* The disconnect cleanup has run for p and p has not logged in since: the
\* store holds p and no in-memory record of p exists (only the cleanup
\* deletes a record, only a login or a rehydration creates one).
Released(p) == p \in DOMAIN store /\ p \notin DOMAIN players

\* C11: a participant whose disconnect cleanup has run is in neither
\* waitingPlayers nor matches until it logs in again.
C11_ReleasedStaysOut ==
  \A p \in Ids :
    Released(p) => p \notin SeqRange(waitingPlayers) /\ p \notin DOMAIN matches

\* ----------------------------------------------------------------------- C12
\* The makeChoice handler c was suspended at its store write when the
\* disconnect cleanup of its connection ran for its participant.
Overtaken(c) == c.k = "choice_write" /\ cleanedUp[c.s] = c.p

\* C12: when such a handler resumes, no settlement is run: no score and no
\* currentRound changes and no roundComplete is sent.
C12_OvertakenNeverSettles ==
  [][\A c \in Suspended :
       (Overtaken(c) /\ pending' = Resume(c)) =>
         /\ Settlements(sent') = {}
         /\ Events(sent', "roundComplete") = {}
         /\ \A p \in DOMAIN players :
              /\ p \in DOMAIN players'
              /\ players'[p].score = players[p].score
              /\ players'[p].currentRound = players[p].currentRound]_vars

\* ----------------------------------------------------------------------- C13
\* The disconnect cleanup of connection s runs in this step, for a
\* participant p that has an in-memory record.
CleansUp(s, p) ==
  /\ conn[s] = "open" /\ conn'[s] = "closed"
  /\ p = BindingGet(socketToPlayerId, s)
  /\ p \in DOMAIN players
  /\ cleanedUp'[s] = p

\* C13: the record a login with the known identifier rebuilds from what the
\* disconnect has persisted has the score, the totalGames and the
\* currentRound the in-memory record had at the disconnect.
C13_PersistLoginRoundTrip ==
  [][\A s \in Sockets, p \in Ids :
       CleansUp(s, p) =>
         LET back == Rebuild(p, players[p].name, store'[p]) IN
         /\ back.score = players[p].score
         /\ back.totalGames = players[p].totalGames
         /\ back.currentRound = players[p].currentRound]_vars

\* ----------------------------------------------------------------------- C14
\* i stands before j in the waiting queue.
Ahead(i, j) ==
  \E a, b \in 1..Len(waitingPlayers) :
    a < b /\ waitingPlayers[a] = i /\ waitingPlayers[b] = j

\* The call of matchPlayers made by the step ran out of stack.
Thrown(out) == Events(out, "rangeError") # {}

\* C14: pairing follows the order of the queue: when two valid ids are both
\* waiting and a matchmaking call that returns pairs the later one, it has
\* paired the earlier one too, also when the call met an id whose record or
\* connection is missing and put the valid side of the popped pair back.
C14_FifoPairing ==
  [][\A i, j \in Ids :
       (/\ Ahead(i, j) /\ Valid(GS, i) /\ Valid(GS, j)
        /\ ~Thrown(sent')
        /\ j \in DOMAIN matches') => i \in DOMAIN matches']_vars

\* ----------------------------------------------------------------------- C15
\* C15: a matchmaking call that returns leaves fewer than two ids waiting or
\* has formed a valid pair, so after every handler (each one that adds to the
\* queue ends with the call) no two valid participants are both left waiting,
\* also when the call met a stale id among the first two.
C15_NoValidPairLeftWaiting ==
  \A p, q \in Ids :
    (p # q /\ Valid(GS, p) /\ Valid(GS, q)) =>
      ~({p, q} \subseteq SeqRange(waitingPlayers))

\* ----------------------------------------------------------------------- C16
\* C16: the match table is a symmetric, irreflexive relation: matches[a] = b
\* implies a # b and matches[b] = a.
C16_MatchesSymmetric ==
  \A a \in DOMAIN matches :
    /\ matches[a] # a
    /\ MapGet(matches, matches[a]) = a

\* ----------------------------------------------------------------------- C17
\* The step is a joinGame event on connection s, bound to participant p, which
\* has a record and is waiting or paired.
JoinsAgain(s, p) ==
  /\ p = BindingGet(socketToPlayerId, s)
  /\ p \in DOMAIN players
  /\ p \in SeqRange(waitingPlayers) \/ p \in DOMAIN matches
  /\ JoinGameEvent(s)

\* The step sends one message, an error to connection s.
OnlyError(s) ==
  /\ Len(sent') = 1
  /\ sent'[1].ev = "error"
  /\ sent'[1].to = s

\* C17: a joinGame from a participant that is already waiting or already
\* paired is answered with an error and changes nothing: no record changes
\* (totalGames is not incremented), nothing is written to the store, no
\* gameJoined is sent, no handler is left waiting for a store write, and the
\* queue and the match table stay as they were.
C17_JoinAgainRejected ==
  [][\A s \in Sockets, p \in Ids :
       JoinsAgain(s, p) =>
         /\ OnlyError(s)
         /\ players' = players
         /\ store' = store
         /\ pending' = pending
         /\ waitingPlayers' = waitingPlayers
         /\ matches' = matches]_vars

\* A waiting participant has just been refused.
C17_Witness ==
  \E s \in Sockets :
    /\ sent = <<ErrorMsg(s, "alreadyWaiting")>>
    /\ BindingGet(socketToPlayerId, s) \in SeqRange(waitingPlayers)
    /\ players[BindingGet(socketToPlayerId, s)].totalGames = 1

\* ----------------------------------------------------------------------- C18
\* The step is a makeChoice event on connection s whose choice is no choice,
\* whose connection is bound to no participant, or whose participant holds no
\* pairing.
ChoosesInVain(s, choice) ==
  /\ \/ choice \notin Choices
     \/ BindingGet(socketToPlayerId, s) = None
     \/ BindingGet(socketToPlayerId, s) \notin DOMAIN matches
  /\ MakeChoiceEvent(s, choice)

\* C18: such a makeChoice is answered with an error and leaves every record
\* (pendingChoice, history, score, currentRound) and the store unchanged; no
\* choice counts as submitted and no handler is left waiting for a store write.
C18_ChoiceRejected ==
  [][\A s \in Sockets, choice \in Choices \cup {BadChoice} :
       ChoosesInVain(s, choice) =>
         /\ OnlyError(s)
         /\ players' = players
         /\ store' = store
         /\ submitted' = submitted
         /\ pending' = pending]_vars

\* A participant that is only waiting has just been refused a valid choice.
C18_Witness ==
  \E s \in Sockets :
    /\ sent = <<ErrorMsg(s, "noOpponent")>>
    /\ BindingGet(socketToPlayerId, s) \in SeqRange(waitingPlayers)
    /\ BindingGet(socketToPlayerId, s) \notin DOMAIN matches

\* ----------------------------------------------------------------------- C19
\* The step is a login event on connection s with a name of more than
\* NAME_LIMIT characters.
LogsInLong(s, idIn, nameIn) ==
  /\ Len(nameIn) > NAME_LIMIT
  /\ LoginEvent(s, idIn, nameIn)

\* C19: a login whose displayName is longer than 20 characters is answered
\* with an error and has no effect: no binding is created or changed, no
\* record is created or replaced, no id is drawn, nothing is written to the
\* store and no handler is left waiting for it.
C19_LongNameRejected ==
  [][\A s \in Sockets, idIn \in IdInputs \cup {UnknownId}, nameIn \in {LongName} :
       LogsInLong(s, idIn, nameIn) =>
         /\ OnlyError(s)
         /\ socketToPlayerId' = socketToPlayerId
         /\ players' = players
         /\ store' = store
         /\ nextId' = nextId
         /\ pending' = pending]_vars

\* A connection that is already bound has just been refused a long name.
C19_Witness ==
  \E s \in Sockets :
    /\ sent = <<ErrorMsg(s, "nameTooLong")>>
    /\ BindingGet(socketToPlayerId, s) \in DOMAIN players

\* ----------------------------------------------------------------------- C20
\* The step is the segment of a login with a stored id in which the hash read
\* from the store has arrived.
Rehydrates(c) == c.k = "login_hgetall" /\ LoginHGetAllReply(c)

\* The step is the segment of a login on connection s, with no id or with an
\* id the store does not hold, that follows the decision to register.
Registers(s) ==
  \/ \E nameIn \in limit.names : Len(nameIn) <= NAME_LIMIT /\ LoginEvent(s, None, nameIn)
  \/ \E c \in Suspended :
       /\ c.s = s /\ c.k = "login_exists" /\ c.p \notin DOMAIN store
       /\ LoginExistsReply(c)

\* C20: a login with an id that has a durable record rehydrates that record
\* under the same id with the newly supplied name; a login with no id or an
\* id unknown to the store creates a record under a fresh id, different from
\* the supplied one and from every existing id, with score INITIAL_SCORE, empty
\* history, currentRound 0, no pending choice and totalGames 0; in both cases
\* the connection is bound to the resulting id.
C20_LoginRecord ==
  [][/\ \A c \in Suspended :
          Rehydrates(c) =>
            /\ BindingGet(socketToPlayerId', c.s) = c.p
            /\ c.p \in DOMAIN players'
            /\ players'[c.p].id = c.p
            /\ players'[c.p].name = c.nm
            /\ players'[c.p].score = c.rd.score
            /\ players'[c.p].history = c.rd.history
            /\ players'[c.p].currentRound = c.rd.currentRound
            /\ players'[c.p].totalGames = c.rd.totalGames
            /\ players'[c.p].currentChoice =
                 (IF c.rd.currentChoice = "" THEN NoChoice ELSE c.rd.currentChoice)
     /\ \A s \in Sockets :
          Registers(s) =>
            LET p == BindingGet(socketToPlayerId', s) IN
            /\ p \in Ids
            /\ p \notin DOMAIN players \cup DOMAIN store \cup DOMAIN matches
            /\ p \notin SeqRange(waitingPlayers)
            /\ \A c \in Suspended : c.p # p
            /\ p \in DOMAIN players'
            /\ players'[p].id = p
            /\ players'[p].score = INITIAL_SCORE
            /\ players'[p].history = <<>>
            /\ players'[p].currentRound = 0
            /\ players'[p].currentChoice = NoChoice
            /\ players'[p].totalGames = 0]_vars

\* A participant that has played a round is back under its id with the other
\* name, and a login with an unknown id has been given a fresh id.
C20_Witness ==
  \E c \in Suspended :
    /\ c.k = "login_hset" /\ ~c.ex
    /\ BindingGet(socketToPlayerId, c.s) = c.p
    /\ c.p \in DOMAIN players
    /\ players[c.p].name = OtherName
    /\ players[c.p].totalGames = 1
    /\ players[c.p].currentRound = 1
    /\ players[c.p].score # INITIAL_SCORE

\* ----------------------------------------------------------------------- C21
\* The step resumes the suspended handler c.
Resumes(c) == pending' = Resume(c)

\* C21: when the durable write of an operation fails, its success notification
\* is not sent: no gameJoined after a joinGame whose write was not applied, no
\* loginSuccess after a login whose store command was rejected, no roundComplete
\* in a settlement whose write fails.
C21_NoSuccessAfterFailedWrite ==
  [][/\ \A c \in Suspended :
          (c.k = "join_write" /\ ~c.ex /\ Resumes(c)) =>
            Events(sent', "gameJoined") = {}
     /\ \A c \in Suspended :
          (c.k = "login_rejected" /\ Resumes(c)) =>
            Events(sent', "loginSuccess") = {}
     /\ Events(sent', "writeFailed") # {} =>
          Events(sent', "roundComplete") = {}]_vars

\* ----------------------------------------------------------------------- C22
\* The hash of p agrees with the record of p on the four fields.
Agrees(p) ==
  /\ p \in DOMAIN store
  /\ store[p].score = players[p].score
  /\ store[p].history = players[p].history
  /\ store[p].currentRound = players[p].currentRound
  /\ store[p].currentChoice =
       (IF players[p].currentChoice = NoChoice THEN "" ELSE players[p].currentChoice)

\* C22: once every store write issued so far has been applied (no handler is
\* waiting for the store), the durable record of each in-memory participant
\* agrees with the in-memory record on score, history, currentRound and
\* pendingChoice.
C22_StoreAgrees ==
  pending = EmptyBag => \A p \in DOMAIN players : Agrees(p)

\* ----------------------------------------------------------------------- C23
\* The payoff constants recorded in the newest history entry of p: those in
\* effect when p submitted its choice.
Recorded(p) == players[p].history[Len(players[p].history)].rewards

\* C23: at a settlement both deltas are computed from one snapshot of the
\* payoff constants, and that snapshot is one recorded in the history entries
\* of the round, not a value the constants took later.
C23_SettlesOnRecordedRewards ==
  [][\A m \in Settlements(sent') :
       LET p == m.who
           q == m.n1
       IN /\ players[p].history # <<>>
          /\ players[q].history # <<>>
          /\ \E r \in {Recorded(p), Recorded(q)} :
               <<players'[p].score - players[p].score,
                 players'[q].score - players[q].score>>
                 = Payoff(players[p].currentChoice, players[q].currentChoice, r)]_vars

\* ----------------------------------------------------------------------- C24
\* C24: every participant id that has an in-memory record is the target of at
\* least one connection binding.
C24_RecordsAreBound ==
  \A p \in DOMAIN players : findSocketByPlayerId(GS, p) # None

\* ----------------------------------------------------------------------- C25
\* The step leaves p in a pairing it did not hold before, or announces one.
NewlyPaired(p) ==
  \/ p \in DOMAIN matches' /\ MapGet(matches, p) # matches'[p]
  \/ p \in DOMAIN matches' /\ \E e \in Events(sent', "matchFound") : e.who = p

\* C25: whenever a pairing is formed both sides have no pending choice, and the
\* settlement of a pairing counts only choices submitted in that pairing: a
\* choice submitted in an earlier pairing that was dissolved without
\* settlement never counts in the new one.
C25_PairsStartWithoutChoice ==
  [][/\ \A p \in DOMAIN players' :
          NewlyPaired(p) => players'[p].currentChoice = NoChoice
     /\ \A m \in Settlements(sent') :
          Paired(m.who, m.n1) => {m.who, m.n1} \subseteq submitted]_vars

\* ----------------------------------------------------------------------- C26
\* q holds no choice: it has no record or its currentChoice is none.
NoPending(q) == q \in DOMAIN players => players[q].currentChoice = NoChoice

\* The step leaves every round open: no score and no currentRound changes, no
\* roundComplete is sent, the pairings and the queue stay as they were, and no
\* record changes but, in currentChoice and history only, that of p.
StaysOpen(p) ==
  /\ DOMAIN players' = DOMAIN players
  /\ \A q \in DOMAIN players :
       /\ players'[q].score = players[q].score
       /\ players'[q].currentRound = players[q].currentRound
       /\ q # p => players'[q] = players[q]
       /\ q = p => players'[q] = [players[q] EXCEPT
                                   !.currentChoice = players'[q].currentChoice,
                                   !.history = players'[q].history]
  /\ matches' = matches
  /\ waitingPlayers' = waitingPlayers
  /\ Events(sent', "roundComplete") = {}
  /\ Settlements(sent') = {}

\* C26: a makeChoice accepted while the opponent holds no choice leaves the
\* round open.  The segment that records the choice changes currentChoice and
\* history of the submitter and nothing else of the game; the segment that
\* follows the store write, when the opponent still holds no choice, changes
\* nothing at all.
C26_OpenRoundFrame ==
  [][/\ \A s \in Sockets : \A choice \in Choices :
          LET p == BindingGet(socketToPlayerId, s) IN
          (/\ p \in DOMAIN players
           /\ findOpponent(GS, p) # None
           /\ NoPending(findOpponent(GS, p))
           /\ MakeChoiceEvent(s, choice))
            => /\ StaysOpen(p)
               /\ players'[p].currentChoice = choice
               /\ players'[p].history = RecordChoice(players[p], choice, globalRewards).history
     /\ \A c \in Suspended : \A cut \in Cuts :
          (/\ NoPending(c.o)
           /\ MakeChoiceReply(c, cut))
            => /\ StaysOpen(None)
               /\ players' = players]_vars

\* One side of a pairing has submitted, its handler has run to its end, and the
\* pairing is still in place with the other side holding no choice.
C26_Witness ==
  \E p, q \in Ids :
    /\ Paired(p, q)
    /\ p \in submitted
    /\ players[p].currentChoice # NoChoice
    /\ Len(players[p].history) = 1
    /\ players[q].currentChoice = NoChoice
    /\ players[p].score = INITIAL_SCORE /\ players[q].score = INITIAL_SCORE
    /\ \A c \in Suspended : c.k # "choice_write"
    /\ sent = <<>>

\* ----------------------------------------------------------------------- C27
\* The step has formed a pairing for p: matchFound was sent to p.
FormedFor(out, p) == \E e \in Events(out, "matchFound") : e.who = p

\* C27: in the state a settlement step leaves, a side that terminated is in
\* neither the waiting queue nor the match table; a side that did not terminate
\* and has a record is in the waiting queue or in a pairing the matchmaking
\* pass of the step has formed; and the two sides are paired with each other
\* only by a pairing that pass has formed.
C27_AfterSettlement ==
  [][\A m \in Settlements(sent') : \A pq \in Sides(m) :
       LET p == pq[1]
           q == pq[2]
       IN /\ Terminated(sent', p) =>
               /\ p \notin SeqRange(waitingPlayers')
               /\ p \notin DOMAIN matches'
          /\ (~Terminated(sent', p) /\ p \in DOMAIN players') =>
               \/ p \in SeqRange(waitingPlayers')
               \/ p \in DOMAIN matches' /\ FormedFor(sent', p)
          /\ p \in DOMAIN matches' => FormedFor(sent', p)]_vars

\* ----------------------------------------------------------------------- C28
\* totalGames of participant p: that of its in-memory record and, while it has
\* none, that of its durable record, from which the next login rebuilds it.
TotalGames(recs, hashes, p) ==
  IF p \in DOMAIN recs THEN recs[p].totalGames
  ELSE IF p \in DOMAIN hashes THEN hashes[p].totalGames
  ELSE 0

\* The joinGame handlers of p suspended at their store write in the bag b: each
\* of them sends gameJoined when it resumes.
JoinWrites(b, p) ==
  BagCardinality([c \in {d \in BagToSet(b) : d.k = "join_write" /\ d.p = p}
                    |-> CopiesIn(c, b)])

\* C28: totalGames of a participant never decreases, and it changes only in
\* the step in which a joinGame of the participant passes its checks (the
\* handler that is then confirmed with gameJoined), where it grows by 1.
C28_TotalGamesCounts ==
  [][\A p \in Ids :
       /\ TotalGames(players', store', p) >= TotalGames(players, store, p)
       /\ TotalGames(players', store', p) =
            IF JoinWrites(pending', p) = JoinWrites(pending, p) + 1
            THEN TotalGames(players, store, p) + 1
            ELSE TotalGames(players, store, p)
       /\ (\E e \in Events(sent', "gameJoined") : e.who = p)
            <=> JoinWrites(pending', p) = JoinWrites(pending, p) - 1]_vars

\* ----------------------------------------------------------------------- C29
\* The record of p before a step of its joinGame: the in-memory record and,
\* while it has none, the record its durable hash denotes.
RecordBefore(p) ==
  IF p \in DOMAIN players THEN players[p]
  ELSE Rebuild(p, store[p].name, store[p])

\* The step keeps score, currentRound, history and currentChoice of p, and
\* score, currentRound, history and totalGames of every other participant.
KeepsGame(p) ==
  /\ p \in DOMAIN players'
  /\ players'[p].score = RecordBefore(p).score
  /\ players'[p].currentRound = RecordBefore(p).currentRound
  /\ players'[p].history = RecordBefore(p).history
  /\ players'[p].currentChoice = RecordBefore(p).currentChoice
  /\ \A q \in DOMAIN players \ {p} :
       /\ q \in DOMAIN players'
       /\ players'[q].score = players[q].score
       /\ players'[q].currentRound = players[q].currentRound
       /\ players'[q].history = players[q].history
       /\ players'[q].totalGames = players[q].totalGames

\* C29: an accepted joinGame keeps score, currentRound, history and
\* currentChoice of the participant, in the segment that passes the checks and
\* counts the game and in the segment that confirms it, queues the participant
\* and runs the matchmaking pass.
C29_JoinKeepsGame ==
  [][/\ \A p \in Ids :
          JoinWrites(pending', p) = JoinWrites(pending, p) + 1
            => (p \in DOMAIN players \/ p \in DOMAIN store) /\ KeepsGame(p)
     /\ \A c \in Suspended : \A cut \in Cuts :
          (JoinWriteReply(c, cut) /\ c.p \in DOMAIN players) => KeepsGame(c.p)]_vars

\* ----------------------------------------------------------------------- C30
\* The step closes a connection that is bound to p.
Closes(p) ==
  \E s \in Sockets :
    /\ conn[s] = "open"
    /\ conn'[s] = "closed"
    /\ BindingGet(socketToPlayerId, s) = p

\* C30: a pairing that is in place before a step and not after it was
\* dissolved by its own settlement or by the disconnect of one of its two
\* sides; no other step, and no passing of time, takes a pairing away.
C30_PairingDissolvedOnlyBy ==
  [][\A p, q \in Ids :
       (/\ Paired(p, q)
        /\ ~(MapGet(matches', p) = q /\ MapGet(matches', q) = p))
         => \/ Settled(sent', p, q)
            \/ Closes(p)
            \/ Closes(q)]_vars

\* ----------------------------------------------------------------------- C31
\* The getTopPlayers call has returned, after reading at least one hash.
Returned == calc.at = "done"

\* C31: getTopPlayers(n) returns at most n entries, in descending order of
\* score; every entry it read and left out has a score no higher than any
\* score it returns, and so has every hash of the store when no other handler
\* wrote to the store during the call.
C31_TopPlayers ==
  Returned =>
    /\ Len(calc.result) <= calc.n
    /\ \A i, j \in 1..Len(calc.result) :
         i < j => calc.result[i].score >= calc.result[j].score
    /\ \A e \in SeqRange(calc.list) :
         e \notin SeqRange(calc.result) =>
           \A r \in SeqRange(calc.result) : e.score <= r.score
    /\ calc.writes = 0 =>
         \A p \in DOMAIN store :
           (\A r \in SeqRange(calc.result) : r.id # p) =>
             \A r \in SeqRange(calc.result) : store[p].score <= r.score

\* The call has returned two of three hashes, the one it left out listed
\* first by `keys` and the two it returned in ascending order of score.
C31_Witness ==
  /\ Returned
  /\ calc.n = 2
  /\ calc.writes = 0
  /\ Len(calc.list) = 3
  /\ Len(calc.result) = 2
  /\ calc.list[1].score < calc.list[2].score
  /\ calc.list[2].score < calc.list[3].score
  /\ calc.result = <<calc.list[3], calc.list[2]>>

\* ----------------------------------------------------------------------- C32
\* C32: every gameEnd carries the score-exhausted reason when the score at
\* termination is <= MIN_SCORE, whether or not the round limit is reached as
\* well, and the round-limit reason otherwise; its rounds field is the
\* currentRound the settlement has grown, and the record is left at round 0.
C32_EndReason ==
  [][\A e \in Events(sent', "gameEnd") :
       /\ e.who \in DOMAIN players /\ e.who \in DOMAIN players'
       /\ e.n1 = players'[e.who].score
       /\ e.txt = IF e.n1 <= MIN_SCORE THEN "scoreExhausted" ELSE "maxRounds"
       /\ e.txt = "maxRounds" => e.n2 >= MAX_ROUNDS
       /\ e.n2 = players[e.who].currentRound + 1
       /\ players'[e.who].currentRound = 0]_vars

\* The step before sent a gameEnd to a participant whose score was exhausted
\* in the round that reached the round limit.
C32_Witness ==
  \E e \in Events(sent, "gameEnd") :
    /\ e.n1 <= MIN_SCORE
    /\ e.n2 >= MAX_ROUNDS
    /\ e.txt = "scoreExhausted"

\* ----------------------------------------------------------------------- C33
\* C33: every call of matchPlayers returns: no handler that calls it, directly
\* or through checkMatchCompletion, ends with the call stack exhausted.
C33_MatchPlayersReturns ==
  [][\A cut \in Cuts :
       /\ \A c \in Suspended :
            /\ JoinWriteReply(c, cut) => ~matchPlayers(WaitingAdd(GS, c.p), cut).overflow
            /\ MakeChoiceReply(c, cut) => ~checkMatchCompletion(GS, c.p, c.o, cut).overflow
       /\ \A s \in Sockets :
            (Disconnect(s, cut) \/ DisconnectAgain(s, cut))
              => ~DisconnectHandler(GS, s, cut).overflow]_vars

\* ----------------------------------------------------------------------- C34
\* C34: every settlement is between two participants that hold a pairing
\* with each other in the state in which the settlement is run.
C34_SettlesOnlyPairs ==
  [][\A m \in Settlements(sent') : Paired(m.who, m.n1)]_vars

\* ----------------------------------------------------------------------- C35
\* Participant p is bound to a connection that is open and stays open.
StaysBound(p) ==
  \E s \in Sockets :
    /\ conn[s] = "open"
    /\ conn'[s] = "open"
    /\ BindingGet(socketToPlayerId, s) = p

\* C35: the step that closes a connection bound to p, while another open
\* connection is bound to p as well, keeps the record of p, its place in the
\* waiting queue and its pairing.
C35_OtherConnectionKeepsRecord ==
  [][\A p \in Ids :
       (Closes(p) /\ StaysBound(p)) =>
         /\ p \in DOMAIN players => p \in DOMAIN players'
         /\ p \in SeqRange(waitingPlayers) => p \in SeqRange(waitingPlayers')
         /\ p \in DOMAIN matches =>
              p \in DOMAIN matches' /\ matches'[p] = matches[p]]_vars

\* ----------------------------------------------------------------------- C36
\* C36: the history of every in-memory record holds at most one entry per
\* round index.
C36_OneEntryPerRound ==
  \A p \in DOMAIN players :
    \A i, j \in 1..Len(players[p].history) :
      i # j => players[p].history[i].round # players[p].history[j].round

\* ----------------------------------------------------------------------- C37
\* C37: between handler steps every in-memory record has a currentRound of at
\* least 0 and below MAX_ROUNDS.
C37_RoundInRange ==
  \A p \in DOMAIN players :
    players[p].currentRound >= 0 /\ players[p].currentRound < MAX_ROUNDS

\* The step before was a settlement in which a participant reached the round
\* limit with a score above MIN_SCORE; its record is back at round 0.
C37_Witness ==
  \E e \in Events(sent, "gameEnd") :
    /\ e.n2 = MAX_ROUNDS
    /\ e.txt = "maxRounds"
    /\ e.who \in DOMAIN players
    /\ players[e.who].currentRound = 0
    /\ players[e.who].score > MIN_SCORE

\* ----------------------------------------------------------------------- C38
\* C38: every participant with a record that is in the waiting queue or holds
\* a pairing has a score above MIN_SCORE.
C38_QueuedOrPairedHasScore ==
  \A p \in DOMAIN players :
    (p \in SeqRange(waitingPlayers) \/ p \in DOMAIN matches) =>
      players[p].score > MIN_SCORE

\* ----------------------------------------------------------------------- C39
\* C39: every gameEnd notification of a step comes after a roundComplete
\* notification of the same step, to the same connection and participant,
\* whose totalScore is the finalScore of the gameEnd.
C39_RoundCompleteBeforeGameEnd ==
  \A j \in 1..Len(sent) :
    sent[j].ev = "gameEnd" =>
      /\ Settlements(sent) # {}
      /\ \E i \in 1..(j - 1) :
           /\ sent[i].ev = "roundComplete"
           /\ sent[i].who = sent[j].who
           /\ sent[i].to = sent[j].to
           /\ sent[i].n2 = sent[j].n1

\* The step before was a settlement that ended the game of one side only, by
\* its score, before the round limit, and notified both sides of the round.
C39_Witness ==
  /\ Cardinality(Events(sent, "gameEnd")) = 1
  /\ Cardinality(Events(sent, "roundComplete")) = 2
  /\ \E e \in Events(sent, "gameEnd") :
       /\ e.txt = "scoreExhausted"
       /\ e.n2 < MAX_ROUNDS
       /\ e.n1 <= MIN_SCORE

====
